---- MODULE Spec2Model ----
(***************************************************************************)
(* A model of the 1L-CVRP simulated-annealing optimizer: the distance      *)
(* oracle (src/models/network.py), the route optimizer, the neighborhood   *)
(* operators, the initial-solution constructor, the validator, the cost    *)
(* model and the annealing driver.                                         *)
(*                                                                         *)
(* Numbers.  Python floats are modelled by exact integers.  Distances,     *)
(* volumes and weights are integers; float("inf") is the value Inf, with   *)
(* the operators AddInf, LtInf, LeInf giving IEEE arithmetic on it.        *)
(* Money is counted in units of 1/CostScale so that every product of the   *)
(* cost model (x0.8, x0.95, x1.05, x0.1, x0.15, x0.2) is exact; a          *)
(* defuzzified value is counted in thirds of the unit of its fuzzy number. *)
(* Where the binary rounding of a float product or quotient can decide a   *)
(* comparison or an int() (WithinTolerance, refuel_stops), the product or  *)
(* quotient is worked out as the double the program gets (Float, FloatMul, *)
(* FloatDiv).                                                              *)
(***************************************************************************)
EXTENDS Integers, Sequences, FiniteSets, TLC

VARIABLES
    net,              \* which Network object (index into Networks)
    distance_cache,   \* Network._distance_cache: (source, target) -> length
    nq,               \* number of oracle queries made so far
    lastQuery,        \* the last oracle call: its arguments and result
    inst,             \* which input data set (index into Instances)
    uin,              \* a component called on its own: the arguments
    uout,             \* ... and what it returned
    ustep,            \* ... and which call has been made
    phase,            \* where optimize() is: INITIALIZING, SEARCHING, TERMINATED
    vehicle_load,     \* the load each Vehicle object records
    current_solution, \* SimulatedAnnealingOptimizer.current_solution
    current_cost,     \* ... .current_cost
    best_solution,    \* ... .best_solution
    best_cost,        \* ... .best_cost
    best_validation,  \* ... .best_validation
    temperature,      \* ... .temperature, a rational [num, den]
    iteration,        \* the local iteration of optimize()
    stats,            \* the local stats of optimize()
    last,             \* the neighbor of the last iteration and what became of it
    returned          \* the OptimizationResult returned

netVars == <<net, distance_cache, nq, lastQuery>>

unitVars == <<inst, uin, uout, ustep>>

optVars == <<phase, vehicle_load, current_solution, current_cost, best_solution, best_cost,
             best_validation, temperature, iteration, stats, last, returned>>

vars == <<netVars, unitVars, optVars>>

(***************************************************************************)
(* Generic helpers                                                         *)
(***************************************************************************)
Inf == -1

IsInf(x) == x = Inf

AddInf(a, b) == IF a = Inf \/ b = Inf THEN Inf ELSE a + b

LtInf(a, b) == IF a = Inf THEN FALSE ELSE IF b = Inf THEN TRUE ELSE a < b

LeInf(a, b) == IF b = Inf THEN TRUE ELSE IF a = Inf THEN FALSE ELSE a <= b

Range(s) == {s[i] : i \in DOMAIN s}

\* the element of a one-element set; {F(x) : x \in {e}} has e worked out once
\* however often F uses it
TheOne(S) == CHOOSE x \in S : TRUE

RECURSIVE SumSeq(_)
SumSeq(s) == IF s = <<>> THEN 0 ELSE Head(s) + SumSeq(Tail(s))

RemoveAt(s, i) == SubSeq(s, 1, i - 1) \o SubSeq(s, i + 1, Len(s))

\* list.remove(x): removes the first element equal to x
RECURSIVE ListRemove(_, _)
ListRemove(s, x) ==
    IF s = <<>> THEN <<>>
    ELSE IF Head(s) = x THEN Tail(s)
    ELSE <<Head(s)>> \o ListRemove(Tail(s), x)

\* list.insert(i, x) with a 0-based index i in 0..len
ListInsert(s, i, x) == SubSeq(s, 1, i) \o <<x>> \o SubSeq(s, i + 1, Len(s))

Reverse(s) == [i \in 1..Len(s) |-> s[Len(s) + 1 - i]]

\* the distinct elements of a list, in first-occurrence order
RECURSIVE Distinct(_)
Distinct(s) ==
    IF s = <<>> THEN <<>>
    ELSE TheOne({IF x \in Range(d) THEN d ELSE Append(d, x) :
                 x \in {s[Len(s)]},
                 d \in {TheOne({Distinct(front) : front \in {SubSeq(s, 1, Len(s) - 1)}})}})

\* itertools.permutations(s): every ordering of s, in the order the
\* iterator yields them (lexicographic in the positions of s)
RECURSIVE permutations(_)
RECURSIVE perms_from(_, _)
perms_from(s, i) ==
    IF i > Len(s) THEN <<>>
    ELSE TheOne({[k \in 1..Len(rest) |-> <<s[i]>> \o rest[k]] :
                 rest \in {TheOne({permutations(others) : others \in {RemoveAt(s, i)}})}})
         \o perms_from(s, i + 1)

permutations(s) == IF s = <<>> THEN << <<>> >> ELSE perms_from(s, 1)

\* every ordering of the elements of a finite set
Orderings(S) ==
    {p \in [1..Cardinality(S) -> S] : \A i, j \in 1..Cardinality(S) : i # j => p[i] # p[j]}

\* sorted(s, key=...): a stable sort; key is a function from the elements to
\* integers (Inf sorts last)
RECURSIVE SortedBy(_, _)
SortedBy(s, key) ==
    IF s = <<>> THEN <<>>
    ELSE LET x == s[Len(s)]
             \* x goes after every element whose key is <= its own
             pos(init) == Cardinality({i \in 1..Len(init) : LeInf(key[init[i]], key[x])})
         IN  TheOne({SubSeq(init, 1, pos(init)) \o <<x>>
                        \o SubSeq(init, pos(init) + 1, Len(init)) :
                     init \in {SortedBy(SubSeq(s, 1, Len(s) - 1), key)}})

(***************************************************************************)
(* Binary floating point.  A Python float is an IEEE 754 double: 53        *)
(* significant bits, every product and quotient rounded to the nearest     *)
(* double, ties to the even one.  A significand does not fit an integer of *)
(* the checker, so it is held as a Wide: ten digits in base 2^13, least    *)
(* significant first.  A Float is [mant, exp] with value mant x 2^exp and  *)
(* 2^52 <= mant < 2^53, or mant = 0 for zero.                              *)
(***************************************************************************)
LimbBase == 2 ^ 13

RECURSIVE WideFrom(_, _)
WideFrom(n, k) ==
    IF k = 0 THEN <<>> ELSE <<n % LimbBase>> \o WideFrom(n \div LimbBase, k - 1)

Wide(n) == WideFrom(n, 10)

WideZero == <<0, 0, 0, 0, 0, 0, 0, 0, 0, 0>>

WideOne == <<1, 0, 0, 0, 0, 0, 0, 0, 0, 0>>

\* a wide below 2^31 as an integer
Narrow(a) == a[1] + LimbBase * a[2] + LimbBase * LimbBase * a[3]

WideLess(a, b) ==
    \E i \in DOMAIN a : a[i] < b[i] /\ \A j \in (i + 1)..Len(a) : a[j] = b[j]

RECURSIVE AddFrom(_, _, _, _)
AddFrom(a, b, i, carry) ==
    IF i > Len(a) THEN <<>>
    ELSE <<(a[i] + b[i] + carry) % LimbBase>>
         \o AddFrom(a, b, i + 1, (a[i] + b[i] + carry) \div LimbBase)

WideAdd(a, b) == AddFrom(a, b, 1, 0)

\* a - b for a >= b
RECURSIVE SubFrom(_, _, _, _)
SubFrom(a, b, i, borrow) ==
    IF i > Len(a) THEN <<>>
    ELSE <<(a[i] - b[i] - borrow + LimbBase) % LimbBase>>
         \o SubFrom(a, b, i + 1, IF a[i] - b[i] - borrow < 0 THEN 1 ELSE 0)

WideSub(a, b) == SubFrom(a, b, 1, 0)

\* a x k for one digit k
RECURSIVE TimesFrom(_, _, _, _)
TimesFrom(a, k, i, carry) ==
    IF i > Len(a) THEN <<>>
    ELSE <<(a[i] * k + carry) % LimbBase>>
         \o TimesFrom(a, k, i + 1, (a[i] * k + carry) \div LimbBase)

WideTimes(a, k) == TimesFrom(a, k, 1, 0)

\* a x LimbBase^n, and a \div LimbBase^n
ShiftLimbs(a, n) == SubSeq(WideZero, 1, n) \o SubSeq(a, 1, Len(a) - n)

DropLimbs(a, n) == SubSeq(a, n + 1, Len(a)) \o SubSeq(WideZero, 1, n)

RECURSIVE MulFrom(_, _, _)
MulFrom(a, b, j) ==
    IF j > Len(b) THEN WideZero
    ELSE WideAdd(ShiftLimbs(WideTimes(a, b[j]), j - 1), MulFrom(a, b, j + 1))

WideMul(a, b) == MulFrom(a, b, 1)

\* a \div k for one digit k, from the top digit down
RECURSIVE OverFrom(_, _, _, _)
OverFrom(a, k, i, rem) ==
    IF i = 0 THEN <<>>
    ELSE OverFrom(a, k, i - 1, (rem * LimbBase + a[i]) % k)
         \o <<(rem * LimbBase + a[i]) \div k>>

WideOver(a, k) == OverFrom(a, k, Len(a), 0)

\* a x 2^k, and a \div 2^k
ShiftLeft(a, k) == ShiftLimbs(WideTimes(a, 2 ^ (k % 13)), k \div 13)

ShiftRight(a, k) == WideOver(DropLimbs(a, k \div 13), 2 ^ (k % 13))

\* the number of binary digits: those of the top digit and 13 for each
\* digit below it
TopLimb(a) == CHOOSE i \in DOMAIN a : a[i] # 0 /\ \A j \in (i + 1)..Len(a) : a[j] = 0

BitsAt(a, top) == 13 * (top - 1) + Cardinality({k \in 0..12 : 2 ^ k <= a[top]})

BitLength(a) == IF a = WideZero THEN 0 ELSE BitsAt(a, TopLimb(a))

\* the greatest digit q with q x d <= rem, by bisection from the top bit
RECURSIVE DigitFrom(_, _, _, _)
DigitFrom(rem, d, bit, q) ==
    IF bit < 0 THEN q
    ELSE IF WideLess(rem, WideTimes(d, q + 2 ^ bit)) THEN DigitFrom(rem, d, bit - 1, q)
    ELSE DigitFrom(rem, d, bit - 1, q + 2 ^ bit)

\* one digit of a long division: the digit and what is left of rem
DivDigit(rem, d) ==
    TheOne({[digit |-> q, left |-> WideSub(rem, WideTimes(d, q))] :
            q \in {DigitFrom(rem, d, 12, 0)}})

\* long division of rem by d, digit j and the digits below it, for
\* rem < d x LimbBase^(j+1)
RECURSIVE DivFrom(_, _, _)
DivFrom(rem, d, j) ==
    TheOne({IF j = 0 THEN [quotient |-> Wide(st.digit), remainder |-> st.left]
            ELSE TheOne({[quotient |-> WideAdd(ShiftLimbs(Wide(st.digit), j), low.quotient),
                          remainder |-> low.remainder] :
                         low \in {DivFrom(st.left, d, j - 1)}}) :
            st \in {DivDigit(rem, ShiftLimbs(d, j))}})

\* round half to even: half holds the 53 digits kept and the one below
\* them, inexact says that something nonzero lies lower still
RoundUp(half, inexact) == half[1] % 2 = 1 /\ (inexact \/ half[1] % 4 = 3)

\* a carry out of the 53 digits moves the exponent
Normal(mant, exp) ==
    IF mant[5] >= 2 THEN [mant |-> ShiftRight(mant, 1), exp |-> exp + 1]
    ELSE [mant |-> mant, exp |-> exp]

RoundAt(q, half, drop, sticky) ==
    Normal(ShiftRight(WideAdd(half, IF RoundUp(half, sticky \/ ShiftLeft(half, drop - 1) # q)
                                    THEN WideOne ELSE WideZero), 1),
           drop)

\* the double nearest to q (of 54 binary digits or more), ties to even;
\* sticky says that the exact value lies above q, by less than one
Round(q, sticky) ==
    TheOne({TheOne({RoundAt(q, half, drop, sticky) : half \in {ShiftRight(q, drop - 1)}}) :
            drop \in {BitLength(q) - 53}})

FloatZero == [mant |-> WideZero, exp |-> 0]

\* float(n) for a whole n, 0 <= n < 2^31: exact
Float(n) ==
    IF n = 0 THEN FloatZero
    ELSE TheOne({[mant |-> ShiftLeft(Wide(n), 53 - bits), exp |-> bits - 53] :
                 bits \in {BitLength(Wide(n))}})

\* a / b: the quotient of the significands to 55 or 56 binary digits, then
\* rounded
FloatDiv(a, b) ==
    IF a = FloatZero THEN FloatZero
    ELSE TheOne({[mant |-> r.mant, exp |-> r.exp - 55 + a.exp - b.exp] :
                 r \in {Round(qr.quotient, qr.remainder # WideZero) :
                        qr \in {DivFrom(ShiftLeft(a.mant, 55), b.mant, 4)}}})

\* a * b: the product of the significands, 105 or 106 binary digits,
\* rounded
FloatMul(a, b) ==
    IF a = FloatZero \/ b = FloatZero THEN FloatZero
    ELSE TheOne({[mant |-> r.mant, exp |-> r.exp + a.exp + b.exp] :
                 r \in {Round(WideMul(a.mant, b.mant), FALSE)}})

\* a <= b
FloatLeq(a, b) ==
    IF a = FloatZero THEN TRUE
    ELSE IF b = FloatZero THEN FALSE
    ELSE a.exp < b.exp \/ (a.exp = b.exp /\ ~WideLess(b.mant, a.mant))

\* int(a) for 0 <= a < 2^31
Truncate(a) ==
    IF a = FloatZero \/ a.exp <= -53 THEN 0
    ELSE IF a.exp >= 0 THEN Narrow(ShiftLeft(a.mant, a.exp))
    ELSE Narrow(ShiftRight(a.mant, -a.exp))

(***************************************************************************)
(* Networks (src/models/network.py, node.py, edge.py)                      *)
(* A network input is the node list (insertion order), each node's name    *)
(* and country, and the edge list.  Codes and names are disjoint.  A       *)
(* Network object holds the nodes added, the edges its graph took, the     *)
(* table name_to_code and origin_code, which is "NNG" in every Network     *)
(* that build_from_data makes.                                             *)
(***************************************************************************)
MkEdge(a, b, d) == [from_node |-> a, to_node |-> b, distance |-> d]

\* the search instance: Nanning depot, three reachable cities, one island
NetSearch ==
    [codes   |-> <<"NNG", "HAN", "VTE", "BKK", "RGN">>,
     name    |-> [c \in {"NNG", "HAN", "VTE", "BKK", "RGN"} |->
                    CASE c = "NNG" -> "Nanning" [] c = "HAN" -> "Hanoi"
                      [] c = "VTE" -> "Vientiane" [] c = "BKK" -> "Bangkok"
                      [] OTHER -> "Yangon"],
     country |-> [c \in {"NNG", "HAN", "VTE", "BKK", "RGN"} |->
                    CASE c = "NNG" -> "China" [] c = "HAN" -> "Vietnam"
                      [] c = "VTE" -> "Laos" [] c = "BKK" -> "Thailand"
                      [] OTHER -> "Myanmar"],
     edges   |-> <<MkEdge("NNG", "HAN", 300), MkEdge("HAN", "VTE", 400),
                   MkEdge("NNG", "VTE", 800), MkEdge("VTE", "BKK", 600)>>]

\* a star with equal spokes and a chord: many equal-length orderings
NetStar ==
    [codes   |-> <<"NNG", "HAN", "VTE", "BKK", "PNH", "SGN">>,
     name    |-> [c \in {"NNG", "HAN", "VTE", "BKK", "PNH", "SGN"} |->
                    CASE c = "NNG" -> "Nanning" [] c = "HAN" -> "Hanoi"
                      [] c = "VTE" -> "Vientiane" [] c = "BKK" -> "Bangkok"
                      [] c = "PNH" -> "PhnomPenh" [] OTHER -> "Saigon"],
     country |-> [c \in {"NNG", "HAN", "VTE", "BKK", "PNH", "SGN"} |->
                    CASE c = "NNG" -> "China" [] c = "HAN" -> "Vietnam"
                      [] c = "VTE" -> "Laos" [] c = "BKK" -> "Thailand"
                      [] c = "PNH" -> "Cambodia" [] OTHER -> "Vietnam"],
     edges   |-> <<MkEdge("NNG", "HAN", 100), MkEdge("NNG", "VTE", 100),
                   MkEdge("NNG", "BKK", 100), MkEdge("HAN", "VTE", 50),
                   MkEdge("BKK", "PNH", 70)>>]

\* the small fixture: depot A, B, C with A-B 100, B-C 50 and a direct road
\* A-C entered twice (200, then 180), an island, and a road to a missing node
NetLine ==
    [codes   |-> <<"NNG", "HAN", "VTE", "RGN">>,
     name    |-> [c \in {"NNG", "HAN", "VTE", "RGN"} |->
                    CASE c = "NNG" -> "Nanning" [] c = "HAN" -> "Hanoi"
                      [] c = "VTE" -> "Vientiane" [] OTHER -> "Yangon"],
     country |-> [c \in {"NNG", "HAN", "VTE", "RGN"} |->
                    CASE c = "NNG" -> "China" [] c = "HAN" -> "Vietnam"
                      [] c = "VTE" -> "Laos" [] OTHER -> "Myanmar"],
     edges   |-> <<MkEdge("NNG", "HAN", 100), MkEdge("HAN", "VTE", 50),
                   MkEdge("NNG", "VTE", 200), MkEdge("VTE", "NNG", 180),
                   MkEdge("RGN", "XXX", 10)>>]

\* a tree of roads from the depot with six cities, more than the exact
\* route search takes
NetTree ==
    [codes   |-> <<"NNG", "HAN", "VTE", "BKK", "PNH", "SGN", "RGN">>,
     name    |-> [c \in {"NNG", "HAN", "VTE", "BKK", "PNH", "SGN", "RGN"} |->
                    CASE c = "NNG" -> "Nanning" [] c = "HAN" -> "Hanoi"
                      [] c = "VTE" -> "Vientiane" [] c = "BKK" -> "Bangkok"
                      [] c = "PNH" -> "PhnomPenh" [] c = "SGN" -> "Saigon"
                      [] OTHER -> "Yangon"],
     country |-> [c \in {"NNG", "HAN", "VTE", "BKK", "PNH", "SGN", "RGN"} |->
                    CASE c = "NNG" -> "China" [] c = "HAN" -> "Vietnam"
                      [] c = "VTE" -> "Laos" [] c = "BKK" -> "Thailand"
                      [] c = "PNH" -> "Cambodia" [] c = "SGN" -> "Vietnam"
                      [] OTHER -> "Myanmar"],
     edges   |-> <<MkEdge("NNG", "HAN", 10), MkEdge("NNG", "VTE", 10),
                   MkEdge("NNG", "BKK", 40), MkEdge("VTE", "PNH", 40),
                   MkEdge("PNH", "SGN", 30), MkEdge("HAN", "RGN", 40)>>]

NetDepot ==
    [codes   |-> <<"NNG", "VTE", "HAN", "BKK">>,
     name    |-> [c \in {"NNG", "VTE", "HAN", "BKK"} |->
                    CASE c = "NNG" -> "Nanning" [] c = "VTE" -> "Vientiane"
                      [] c = "HAN" -> "Hanoi" [] OTHER -> "Bangkok"],
     country |-> [c \in {"NNG", "VTE", "HAN", "BKK"} |->
                    CASE c = "NNG" -> "China" [] c = "VTE" -> "Laos"
                      [] c = "HAN" -> "Vietnam" [] OTHER -> "Thailand"],
     edges   |-> <<MkEdge("NNG", "VTE", 100), MkEdge("VTE", "HAN", 100),
                   MkEdge("HAN", "BKK", 50)>>]

\* Edge.nodes: the two node ids; the graph is undirected, so the pair is
\* kept as the set of its ends
EdgeNodes(e) == {e.from_node, e.to_node}

\* Network.add_node(node): the node joins the graph (a node already there
\* keeps its place and takes the new attributes) and both name tables are
\* written; name_to_code keeps the entry of an earlier name
add_node(N, node) ==
    [codes   |-> IF node.node_id \in Range(N.codes) THEN N.codes
                 ELSE Append(N.codes, node.node_id),
     name    |-> (node.node_id :> node.name) @@ N.name,
     name_to_code |-> (node.name :> node.node_id) @@ N.name_to_code,
     country |-> (node.node_id :> node.country) @@ N.country,
     edges   |-> N.edges,
     origin_code |-> N.origin_code]

\* Network.add_edge(edge) on a network already built: nothing when an end
\* is missing; otherwise the graph holds this edge between its two ends and
\* no other.  The distance cache is not touched.
add_edge(N, edge) ==
    IF edge.from_node \notin Range(N.codes) \/ edge.to_node \notin Range(N.codes) THEN N
    ELSE [N EXCEPT !.edges =
            Append(SelectSeq(@, LAMBDA e : EdgeNodes(e) # EdgeNodes(edge)), edge)]

\* the loop of build_from_data over the nodes, up to the k-th: add_node on
\* each, from the empty Network of cls()
RECURSIVE nodes_added(_, _)
nodes_added(data, k) ==
    IF k = 0
    THEN [codes |-> <<>>, name |-> <<>>, name_to_code |-> <<>>, country |-> <<>>,
          edges |-> <<>>, origin_code |-> "NNG"]
    ELSE TheOne({add_node(N, [node_id |-> data.codes[k], name |-> data.name[data.codes[k]],
                              country |-> data.country[data.codes[k]]]) :
                 N \in {nodes_added(data, k - 1)}})

\* the loop of build_from_data over the edges, up to the k-th: add_edge on
\* each, after every node is added
RECURSIVE edges_added(_, _)
edges_added(data, k) ==
    IF k = 0 THEN nodes_added(data, Len(data.codes))
    ELSE TheOne({add_edge(N, data.edges[k]) : N \in {edges_added(data, k - 1)}})

\* the Network object build_from_data makes of the input: cls(), whose
\* origin_code is the default, then the nodes, then the edges
Built(data) == edges_added(data, Len(data.edges))

\* what is added to the small fixture after it is built: a road that
\* shortens NNG-VTE from 150 to 1, a new city, a road to the new city, and
\* Hanoi entered again under another name and country
NewEdges == {MkEdge("NNG", "VTE", 1), MkEdge("NNG", "KMG", 5)}

Kunming == [node_id |-> "KMG", name |-> "Kunming", country |-> "China"]

NewNodes == {Kunming, [node_id |-> "HAN", name |-> "Hanoi2", country |-> "Laos"]}

\* every network that calls of add_node and add_edge make of those in S
RECURSIVE Extended(_)
Extended(S) ==
    TheOne({IF more = S THEN S ELSE Extended(more) :
            more \in {S \cup {add_edge(N, edge) : N \in S, edge \in NewEdges}
                         \cup {add_node(N, node) : N \in S, node \in NewNodes}}})

RECURSIVE InSomeOrder(_)
InSomeOrder(S) ==
    IF S = {} THEN <<>>
    ELSE TheOne({<<N>> \o TheOne({InSomeOrder(rest) : rest \in {S \ {N}}}) :
                 N \in {CHOOSE M \in S : TRUE}})

\* the five networks built from the inputs, then the small one as extended
Networks ==
    <<Built(NetSearch), Built(NetStar), Built(NetLine), Built(NetTree), Built(NetDepot)>>
        \o InSomeOrder(Extended({Built(NetLine)}) \ {Built(NetLine)})

Net == Networks[net]

NodeSet(N) == Range(N.codes)

\* self.name_to_code.get(x, x)
NormalizeCode(N, x) == IF x \in DOMAIN N.name_to_code THEN N.name_to_code[x] ELSE x

\* Network.add_edge folded over the edge list: an edge with a missing end is
\* dropped, a repeated edge overwrites the earlier distance.  The graph is a
\* function from ordered pairs (both directions) to the distance.
RECURSIVE add_edges(_, _)
add_edges(N, k) ==
    IF k = 0 THEN <<>>
    ELSE LET g == add_edges(N, k - 1)
             e == N.edges[k]
         IN  IF e.from_node \notin NodeSet(N) \/ e.to_node \notin NodeSet(N)
             THEN g
             ELSE (<<e.from_node, e.to_node>> :> e.distance)
                  @@ (<<e.to_node, e.from_node>> :> e.distance) @@ g

Graph(N) == add_edges(N, Len(N.edges))

\* networkx single-source Dijkstra: the distance from s to every node that
\* is reachable from s
RECURSIVE Dijkstra(_, _, _, _)
Dijkstra(N, g, done, dist) ==
    LET open == DOMAIN dist \ done
    IN  IF open = {} THEN dist
        ELSE LET u == CHOOSE x \in open : \A y \in open : dist[x] <= dist[y]
                 nbrs == {v \in NodeSet(N) \ done : <<u, v>> \in DOMAIN g}
                 better == {v \in nbrs : v \notin DOMAIN dist
                                         \/ dist[u] + g[<<u, v>>] < dist[v]}
                 dist2 == [v \in DOMAIN dist \cup better |->
                             IF v \in better THEN dist[u] + g[<<u, v>>] ELSE dist[v]]
             IN  TheOne({Dijkstra(N, g, done \cup {u}, d2) : d2 \in {dist2}})

dijkstra_lengths_mut(N, s) ==
    [v \in {s} \cup {w \in NodeSet(N) : <<s, w>> \in DOMAIN Graph(N)} |->
        IF v = s THEN 0 ELSE Graph(N)[<<s, v>>]]

dijkstra_lengths(N, s) == TheOne({Dijkstra(N, g, {}, (s :> 0)) : g \in {Graph(N)}})

\* nx.shortest_path_length(graph, s, t, weight): a length, or one of the two
\* exceptions the caller catches
nx_shortest_path_length(N, s, t) ==
    IF s \notin NodeSet(N) THEN [raised |-> "NodeNotFound", length |-> 0]
    ELSE TheOne({IF t \in DOMAIN d THEN [raised |-> "none", length |-> d[t]]
                 ELSE [raised |-> "NetworkXNoPath", length |-> 0] :
                 d \in {dijkstra_lengths(N, s)}})

\* Network.precompute_distances: all-pairs Dijkstra into the cache
precompute_distances(N) ==
    LET pairs == {<<s, t>> \in NodeSet(N) \X NodeSet(N) : t \in DOMAIN dijkstra_lengths(N, s)}
    IN  [p \in pairs |-> dijkstra_lengths(N, p[1])[p[2]]]

\* Network.build_from_data: the cache of the new network
build_from_data(N, precompute) ==
    IF precompute THEN precompute_distances(N) ELSE <<>>

\* Network.shortest_path_length(source, target): the value returned and the
\* cache afterwards
shortest_path_length(N, cache, source, target) ==
    LET source_code == NormalizeCode(N, source)
        target_code == NormalizeCode(N, target)
        cache_key   == <<source_code, target_code>>
    IN  IF cache_key \in DOMAIN cache
        THEN [value |-> cache[cache_key], cache |-> cache]
        ELSE LET r == nx_shortest_path_length(N, source_code, target_code)
             IN  IF r.raised = "none"
                 THEN [value |-> r.length,
                       cache |-> (cache_key :> r.length)
                                 @@ (<<target_code, source_code>> :> r.length) @@ cache]
                 ELSE [value |-> Inf, cache |-> (cache_key :> Inf) @@ cache]

\* the cache after shortest_path_length has been called for every pair of
\* asked, the cache agreeing with the graph: each call that misses writes its
\* own key (and the reverse key of a finite length), so the order of the
\* calls does not matter
RECURSIVE Remember(_, _)
Remember(cache, asked) ==
    IF asked = {} THEN cache
    ELSE LET p == CHOOSE q \in asked : TRUE
         IN  TheOne({Remember(next, asked \ {p}) :
                     next \in {shortest_path_length(Net, cache, p[1], p[2]).cache}})

\* the loop of find_nearest_neighbors over graph.nodes(), from the k-th node
RECURSIVE nearest_scan(_, _, _, _, _)
nearest_scan(N, cache, node_id, k, distances) ==
    IF k > Len(N.codes) THEN [distances |-> distances, cache |-> cache]
    ELSE LET neighbor == N.codes[k]
         IN  IF neighbor = node_id THEN nearest_scan(N, cache, node_id, k + 1, distances)
             ELSE TheOne({nearest_scan(N, r.cache, node_id, k + 1,
                                       IF r.value # Inf
                                       THEN Append(distances, <<neighbor, r.value>>)
                                       ELSE distances) :
                          r \in {shortest_path_length(N, cache, node_id, neighbor)}})

\* Network.find_nearest_neighbors(node_id, n): the list returned and the
\* cache afterwards
find_nearest_neighbors(N, cache, node_id, n) ==
    IF node_id \notin NodeSet(N) THEN [value |-> <<>>, cache |-> cache]
    ELSE LET r == nearest_scan(N, cache, node_id, 1, <<>>)
             dist == [p \in Range(r.distances) |-> p[2]]
             sorted == SortedBy(r.distances, dist)
         IN  [value |-> SubSeq(sorted, 1, IF n < Len(sorted) THEN n ELSE Len(sorted)),
              cache |-> r.cache]

(***************************************************************************)
(* Input data: fleet (src/models/vehicle.py), shipments (shipment.py) and  *)
(* annealing parameters (optimizer.py SAParameters).  fuel_efficiency is   *)
(* given in hundredths of a litre per km.  The temperature is a rational.  *)
(***************************************************************************)
MaxIterations == 2

MkParams(t0, cn, cd, tt, mi) ==
    [initial_temperature |-> t0, cooling_num |-> cn, cooling_den |-> cd,
     termination_temperature |-> tt, max_iterations |-> mi]

\* two trucks; the Hanoi pair fills V1 exactly, and a proximity swap with the
\* Vientiane shipment puts 2001 kg on V1 (limit 2000, tolerance 2002)
Inst1 ==
    [net |-> 1,
     fleet |-> <<"V1", "V2">>,
     max_cbm |-> [v \in {"V1", "V2"} |-> IF v = "V1" THEN 20 ELSE 30],
     max_weight |-> [v \in {"V1", "V2"} |-> IF v = "V1" THEN 2000 ELSE 4000],
     fuel_efficiency |-> [v \in {"V1", "V2"} |-> 30],
     shipments |-> <<"s1", "s2", "s3">>,
     total_cbm |-> [s \in {"s1", "s2", "s3"} |-> 10],
     weight |-> [s \in {"s1", "s2", "s3"} |-> IF s = "s2" THEN 1001 ELSE 1000],
     delivery_location_id |-> [s \in {"s1", "s2", "s3"} |-> IF s = "s2" THEN "VTE" ELSE "HAN"],
     price |-> [s \in {"s1", "s2", "s3"} |-> IF s = "s2" THEN 200 ELSE 100],
     params |-> MkParams(1000, 1, 2, 1, MaxIterations)]

\* the same trucks; the Vientiane shipment weighs 1500 kg, so the swap
\* overloads V1 beyond the tolerance; s4 fits no truck; the run is stopped
\* by the temperature after one iteration
Inst2 ==
    [net |-> 1,
     fleet |-> <<"V1", "V2">>,
     max_cbm |-> [v \in {"V1", "V2"} |-> IF v = "V1" THEN 20 ELSE 30],
     max_weight |-> [v \in {"V1", "V2"} |-> IF v = "V1" THEN 2000 ELSE 4000],
     fuel_efficiency |-> [v \in {"V1", "V2"} |-> 30],
     shipments |-> <<"s1", "s2", "s3", "s4">>,
     total_cbm |-> [s \in {"s1", "s2", "s3", "s4"} |-> IF s = "s4" THEN 100 ELSE 10],
     weight |-> [s \in {"s1", "s2", "s3", "s4"} |->
                   CASE s = "s2" -> 1500 [] s = "s4" -> 500 [] OTHER -> 1000],
     delivery_location_id |-> [s \in {"s1", "s2", "s3", "s4"} |->
                   CASE s = "s2" -> "VTE" [] s = "s4" -> "BKK" [] OTHER -> "HAN"],
     price |-> [s \in {"s1", "s2", "s3", "s4"} |-> IF s = "s2" THEN 200 ELSE 100],
     params |-> MkParams(2, 1, 2, 1, MaxIterations)]

\* one roomy truck and a spare on the star network: Hanoi and Vientiane are
\* equally far from the depot, so two visiting orders have equal length
Inst3 ==
    [net |-> 2,
     fleet |-> <<"V1", "V2">>,
     max_cbm |-> [v \in {"V1", "V2"} |-> 40],
     max_weight |-> [v \in {"V1", "V2"} |-> 4000],
     fuel_efficiency |-> [v \in {"V1", "V2"} |-> 30],
     shipments |-> <<"s1", "s2", "s3">>,
     total_cbm |-> [s \in {"s1", "s2", "s3"} |-> 10],
     weight |-> [s \in {"s1", "s2", "s3"} |-> 1000],
     delivery_location_id |-> [s \in {"s1", "s2", "s3"} |-> IF s = "s2" THEN "VTE" ELSE "HAN"],
     price |-> [s \in {"s1", "s2", "s3"} |-> 100],
     params |-> MkParams(1000, 1, 2, 1, 0)]

\* two trucks on the first network; the second shipment goes to Yangon,
\* which no road reaches: every route that serves it has an infinite leg
Inst4 ==
    [net |-> 1,
     fleet |-> <<"V1", "V2">>,
     max_cbm |-> [v \in {"V1", "V2"} |-> 40],
     max_weight |-> [v \in {"V1", "V2"} |-> 4000],
     fuel_efficiency |-> [v \in {"V1", "V2"} |-> 30],
     shipments |-> <<"s1", "s2">>,
     total_cbm |-> [s \in {"s1", "s2"} |-> 10],
     weight |-> [s \in {"s1", "s2"} |-> 1000],
     delivery_location_id |-> [s \in {"s1", "s2"} |-> IF s = "s2" THEN "RGN" ELSE "HAN"],
     price |-> [s \in {"s1", "s2"} |-> 100],
     params |-> MkParams(1000, 1, 2, 1, MaxIterations)]

\* V1 is roomy but takes 2000 kg, V2 is small but takes 4000 kg; two dense
\* Hanoi shipments: together they fit V1 by volume and not by weight
Inst5 ==
    [net |-> 1,
     fleet |-> <<"V1", "V2">>,
     max_cbm |-> [v \in {"V1", "V2"} |-> IF v = "V1" THEN 40 ELSE 20],
     max_weight |-> [v \in {"V1", "V2"} |-> IF v = "V1" THEN 2000 ELSE 4000],
     fuel_efficiency |-> [v \in {"V1", "V2"} |-> 30],
     shipments |-> <<"s1", "s2">>,
     total_cbm |-> [s \in {"s1", "s2"} |-> 10],
     weight |-> [s \in {"s1", "s2"} |-> 1500],
     delivery_location_id |-> [s \in {"s1", "s2"} |-> "HAN"],
     price |-> [s \in {"s1", "s2"} |-> 100],
     params |-> MkParams(2, 1, 2, 1, MaxIterations)]

\* two equal trucks and a Hanoi group of 25 cbm that neither holds whole:
\* its shipments are placed one by one, the two large ones first
Inst6 ==
    [net |-> 1,
     fleet |-> <<"V1", "V2">>,
     max_cbm |-> [v \in {"V1", "V2"} |-> 20],
     max_weight |-> [v \in {"V1", "V2"} |-> 2000],
     fuel_efficiency |-> [v \in {"V1", "V2"} |-> 30],
     shipments |-> <<"s1", "s2", "s3">>,
     total_cbm |-> [s \in {"s1", "s2", "s3"} |-> IF s = "s1" THEN 5 ELSE 10],
     weight |-> [s \in {"s1", "s2", "s3"} |-> 500],
     delivery_location_id |-> [s \in {"s1", "s2", "s3"} |-> "HAN"],
     price |-> [s \in {"s1", "s2", "s3"} |-> 100],
     params |-> MkParams(2, 1, 2, 1, MaxIterations)]

Inst7 ==
    [net |-> 5,
     fleet |-> <<"V1", "V2">>,
     max_cbm |-> [v \in {"V1", "V2"} |-> 40],
     max_weight |-> [v \in {"V1", "V2"} |-> 4000],
     fuel_efficiency |-> [v \in {"V1", "V2"} |-> 30],
     shipments |-> <<"s1", "s2">>,
     total_cbm |-> [s \in {"s1", "s2"} |-> 10],
     weight |-> [s \in {"s1", "s2"} |-> 1000],
     delivery_location_id |-> [s \in {"s1", "s2"} |-> IF s = "s1" THEN "VTE" ELSE "BKK"],
     price |-> [s \in {"s1", "s2"} |-> 100],
     params |-> MkParams(1000, 1, 2, 1, MaxIterations)]

Inst8 ==
    [net |-> 1,
     fleet |-> <<"V1", "V2">>,
     max_cbm |-> [v \in {"V1", "V2"} |-> 40],
     max_weight |-> [v \in {"V1", "V2"} |-> 2000],
     fuel_efficiency |-> [v \in {"V1", "V2"} |-> 30],
     shipments |-> <<"s1", "s2">>,
     total_cbm |-> [s \in {"s1", "s2"} |-> 10],
     weight |-> [s \in {"s1", "s2"} |-> 1500],
     delivery_location_id |-> [s \in {"s1", "s2"} |-> "HAN"],
     price |-> [s \in {"s1", "s2"} |-> 100],
     params |-> MkParams(2, 1, 2, 1, MaxIterations)]

Instances == <<Inst1, Inst2, Inst3, Inst4, Inst5, Inst6, Inst7, Inst8>>

Instance == Instances[inst]

VehicleSet == Range(Instance.fleet)

ShipmentSet == Range(Instance.shipments)

Dest(s) == Instance.delivery_location_id[s]

\* sum(s.total_cbm for s in shipments), sum(s.weight for s in shipments)
RECURSIVE SumCbm(_)
SumCbm(shipments) ==
    IF shipments = <<>> THEN 0
    ELSE Instance.total_cbm[Head(shipments)] + SumCbm(Tail(shipments))

RECURSIVE SumWeight(_)
SumWeight(shipments) ==
    IF shipments = <<>> THEN 0
    ELSE Instance.weight[Head(shipments)] + SumWeight(Tail(shipments))

\* Vehicle.CAPACITY_TOLERANCE and the literal 1.001 of the validator: the
\* double nearest to 1.001
CAPACITY_TOLERANCE == FloatDiv(Float(1001), Float(1000))

\* x <= limit * 1.001 for whole x and limit, the product being the double
\* the program gets.  The product is within 0.000001 of 1.001 x limit, so
\* its rounding can decide the comparison only when x is exactly
\* 1.001 x limit, and only there is it worked out.
WithinTolerance(x, limit) ==
    IF 1000 * (x - limit) # limit THEN 1000 * (x - limit) < limit
    ELSE FloatLeq(Float(x), FloatMul(Float(limit), CAPACITY_TOLERANCE))

(***************************************************************************)
(* The distance oracle as a state machine: build, then any calls on it    *)
(***************************************************************************)
MaxQueries == 2

\* the networks the oracle is built on
OracleNets == {3}

\* what a caller may pass: a code, a name, or something unknown
QueryArgs(N) == NodeSet(N) \cup DOMAIN N.name_to_code \cup {"XXX"}

NoQuery == [source |-> "", target |-> "", value |-> 0]

\* no component call is being observed
UnitIdle == uin = <<>> /\ uout = <<>> /\ ustep = "none"

\* Python's None, for a field not yet set
None == <<>>

\* no optimizer has been constructed
NoOptimizer ==
    /\ phase = "NONE"
    /\ vehicle_load = None /\ current_solution = None /\ current_cost = None
    /\ best_solution = None /\ best_cost = None /\ best_validation = None
    /\ temperature = None /\ iteration = 0 /\ stats = None /\ last = None
    /\ returned = None

\* the oracle is built with its cache precomputed and not being observed
OracleReady(n) ==
    /\ net = n
    /\ distance_cache = build_from_data(Networks[n], TRUE)
    /\ nq = 0
    /\ lastQuery = NoQuery

InitNet ==
    /\ net \in OracleNets
    /\ \E precompute \in BOOLEAN : distance_cache = build_from_data(Net, precompute)
    /\ nq = 0
    /\ lastQuery = NoQuery
    /\ inst = 0
    /\ UnitIdle
    /\ NoOptimizer

\* shortest_path_length(a, b) called by a user of the network
Query ==
    /\ nq < MaxQueries
    /\ \E a, b \in QueryArgs(Net) :
         LET r == shortest_path_length(Net, distance_cache, a, b)
         IN  /\ distance_cache' = r.cache
             /\ lastQuery' = [source |-> a, target |-> b, value |-> r.value]
    /\ nq' = nq + 1
    /\ UNCHANGED <<net, unitVars, optVars>>

\* find_nearest_neighbors(node_id, n) called by a user of the network
FindNearestNeighbors ==
    /\ nq < MaxQueries
    /\ \E node_id \in QueryArgs(Net), n \in {1, 5} :
         LET r == find_nearest_neighbors(Net, distance_cache, node_id, n)
         IN  /\ distance_cache' = r.cache
             /\ uin' = [node_id |-> node_id, n |-> n]
             /\ uout' = r.value
    /\ ustep' = "find_nearest_neighbors"
    /\ nq' = nq + 1
    /\ UNCHANGED <<net, lastQuery, inst, optVars>>

\* precompute_distances() called on a network already built: every pair
\* with a path is written, whatever the cache held for it
PrecomputeDistances ==
    /\ nq < MaxQueries
    /\ distance_cache' = precompute_distances(Net) @@ distance_cache
    /\ nq' = nq + 1
    /\ UNCHANGED <<net, lastQuery, unitVars, optVars>>

\* add_edge(edge) called on a network already built: the cache stays
AddEdge ==
    /\ nq < MaxQueries
    /\ \E edge \in NewEdges :
         \E k \in DOMAIN Networks : Networks[k] = add_edge(Net, edge) /\ net' = k
    /\ nq' = nq + 1
    /\ UNCHANGED <<distance_cache, lastQuery, unitVars, optVars>>

\* add_node(node) called on a network already built
AddNode ==
    /\ nq < MaxQueries
    /\ \E node \in NewNodes :
         \E k \in DOMAIN Networks : Networks[k] = add_node(Net, node) /\ net' = k
    /\ nq' = nq + 1
    /\ UNCHANGED <<distance_cache, lastQuery, unitVars, optVars>>

NextNet == Query \/ FindNearestNeighbors \/ PrecomputeDistances \/ AddEdge \/ AddNode

SpecNet == InitNet /\ [][NextNet]_vars

\* the length of the shortest simple path between two nodes of the graph,
\* by enumeration of every simple path
PathLength(g, p) ==
    IF \A i \in 1..(Len(p) - 1) : <<p[i], p[i + 1]>> \in DOMAIN g
    THEN SumSeq([i \in 1..(Len(p) - 1) |-> g[<<p[i], p[i + 1]>>]])
    ELSE Inf

SimplePaths(N, a, b) ==
    UNION {{p \in Orderings(S) : p[1] = a /\ p[Len(p)] = b} :
             S \in {T \in SUBSET NodeSet(N) : a \in T /\ b \in T}}

TrueDistance(N, a, b) ==
    IF a \notin NodeSet(N) \/ b \notin NodeSet(N) THEN Inf
    ELSE LET lens == {PathLength(Graph(N), p) : p \in SimplePaths(N, a, b)} \ {Inf}
         IN  IF lens = {} THEN Inf
             ELSE CHOOSE m \in lens : \A x \in lens : m <= x

\* C9: on a network as build_from_data left it (no node or edge added
\* since), every answer of the oracle, after any earlier queries and with
\* the cache precomputed or lazy, is the true shortest distance between the
\* two nodes (infinity when there is no path or a node is unknown), and the
\* reverse query answers the same
C9_OracleExact ==
    (net \in OracleNets /\ lastQuery # NoQuery) =>
        /\ lastQuery.value = TrueDistance(Net, NormalizeCode(Net, lastQuery.source),
                                           NormalizeCode(Net, lastQuery.target))
        /\ shortest_path_length(Net, distance_cache,
                                lastQuery.target, lastQuery.source).value = lastQuery.value

\* a lazily answered query between two connected nodes that needs the detour
\* through HAN, asked after an earlier query
C9_Witness ==
    /\ nq = 2
    /\ lastQuery.source = "Vientiane" /\ lastQuery.target = "NNG"
    /\ lastQuery.value = 150
    /\ <<"NNG", "RGN">> \in DOMAIN distance_cache

(***************************************************************************)
(* Route optimizer (src/optimization/route_optimizer.py)                   *)
(* Functions that iterate over a Python set return the set of the results  *)
(* the possible iteration orders give.                                     *)
(***************************************************************************)
max_exact_size == 5

DefaultOrigin == "NNG"

\* network.shortest_path_length(a, b) as a value, in the current cache
Dist(a, b) == shortest_path_length(Net, distance_cache, a, b).value

\* calculate_route_distance(origin, route, network)
RECURSIVE route_legs(_, _)
route_legs(route, i) ==
    IF i >= Len(route) THEN 0
    ELSE AddInf(Dist(route[i], route[i + 1]), route_legs(route, i + 1))

calculate_route_distance(origin, route) ==
    IF route = <<>> THEN 0
    ELSE AddInf(Dist(origin, route[1]), route_legs(route, 1))

\* the pairs calculate_route_distance(origin, route, network) asks: every leg
route_distance_asked(origin, route) ==
    IF route = <<>> THEN {}
    ELSE {<<origin, route[1]>>} \cup {<<route[i], route[i + 1]>> : i \in 1..(Len(route) - 1)}

\* the test of the permutation loop: "if cost < least_cost"
ExactBetter_mut(cost, least_cost) == LeInf(cost, least_cost)

ExactBetter(cost, least_cost) == LtInf(cost, least_cost)

\* the loop over itertools.permutations(destinations), from the k-th
\* permutation on
RECURSIVE exact_loop(_, _, _, _, _)
exact_loop(origin, perms, k, best_route, least_cost) ==
    IF k > Len(perms) THEN best_route
    ELSE TheOne({IF ExactBetter(cost, least_cost)
                 THEN exact_loop(origin, perms, k + 1, perms[k], cost)
                 ELSE exact_loop(origin, perms, k + 1, best_route, least_cost) :
                 cost \in {calculate_route_distance(origin, perms[k])}})

exact_search(origin, destinations) ==
    TheOne({exact_loop(origin, perms, 1, destinations, Inf) :
            perms \in {permutations(destinations)}})

\* the pairs the permutation loop asks: the legs of every permutation
exact_asked(origin, destinations) ==
    UNION {route_distance_asked(origin, perm) : perm \in Range(permutations(destinations))}

\* nearest_neighbor(origin, destinations, network): "for dest in unvisited"
\* walks a set, so among equally near destinations any one can come first
RECURSIVE nn_walk(_, _, _, _)
nn_walk(destinations, route, unvisited, current) ==
    IF unvisited = {} THEN {route}
    ELSE LET reachable == {d \in unvisited : Dist(current, d) # Inf}
             nearest == {d \in reachable :
                           \A e \in reachable : Dist(current, d) <= Dist(current, e)}
         IN  IF nearest = {}
             THEN {route \o SelectSeq(destinations, LAMBDA d : d \in unvisited)}
             ELSE UNION {nn_walk(destinations, Append(route, d), unvisited \ {d}, d) :
                           d \in nearest}

nearest_neighbor(origin, destinations) ==
    IF destinations = <<>> THEN {<<>>}
    ELSE nn_walk(destinations, <<>>, Range(destinations), origin)

\* the pairs nearest_neighbor asks on the walk that gives route: at every
\* step the distance from the current stop to each unvisited destination,
\* until none is left or none can be reached
RECURSIVE nn_asked(_, _, _, _)
nn_asked(route, k, unvisited, current) ==
    IF unvisited = {} THEN {}
    ELSE {<<current, d>> : d \in unvisited}
         \cup (IF \A d \in unvisited : Dist(current, d) = Inf THEN {}
               ELSE nn_asked(route, k + 1, unvisited \ {route[k]}, route[k]))

\* one pass of the double loop of two_opt_improvement, from the pair (i, j)
\* (0-based, as in the source) onwards; asked collects the pairs whose
\* distance the loop asks
RECURSIVE two_opt_scan(_, _, _, _, _, _)
two_opt_scan(origin, route, i, j, improved, asked) ==
    IF i >= Len(route) - 1 THEN [route |-> route, improved |-> improved, asked |-> asked]
    ELSE IF j >= Len(route) THEN two_opt_scan(origin, route, i + 1, i + 3, improved, asked)
    ELSE LET prev_i == IF i = 0 THEN origin ELSE route[i]
             curr_cost == AddInf(Dist(prev_i, route[i + 1]), Dist(route[j], route[j + 1]))
             new_cost  == AddInf(Dist(prev_i, route[j]), Dist(route[i + 1], route[j + 1]))
             pairs == {<<prev_i, route[i + 1]>>, <<route[j], route[j + 1]>>,
                       <<prev_i, route[j]>>, <<route[i + 1], route[j + 1]>>}
         IN  IF LtInf(new_cost, curr_cost)
             THEN two_opt_scan(origin,
                               SubSeq(route, 1, i) \o Reverse(SubSeq(route, i + 1, j))
                                   \o SubSeq(route, j + 1, Len(route)),
                               i, j + 1, TRUE, asked \cup pairs)
             ELSE two_opt_scan(origin, route, i, j + 1, improved, asked \cup pairs)

RECURSIVE two_opt_loop(_, _, _)
two_opt_loop(origin, route, asked) ==
    TheOne({IF r.improved THEN two_opt_loop(origin, r.route, r.asked)
            ELSE [route |-> r.route, asked |-> r.asked] :
            r \in {two_opt_scan(origin, route, 0, 2, FALSE, asked)}})

\* two_opt_improvement(route, network, origin): the route returned and the
\* pairs asked
two_opt_run(route, origin) ==
    IF Len(route) < 3 THEN [route |-> route, asked |-> {}]
    ELSE two_opt_loop(origin, route, {})

two_opt_improvement(route, origin) == two_opt_run(route, origin).route

\* optimize_route(origin, destinations, network): each route it can return,
\* with the pairs asked on the way to it
optimize_route_run(origin, destinations) ==
    UNION {{[route |-> t.route,
             asked |-> nn_asked(r, 1, Range(destinations), origin) \cup t.asked] :
               t \in {two_opt_run(r, origin)}} :
           r \in nearest_neighbor(origin, destinations)}

\* optimize_route(origin, destinations, network)
optimize_route(origin, destinations) ==
    {t.route : t \in optimize_route_run(origin, destinations)}

\* optimize_route_exact(origin, destinations, network): each route it can
\* return, with the pairs asked on the way to it
optimize_route_exact_run(origin, destinations) ==
    IF destinations = <<>> THEN {[route |-> <<>>, asked |-> {}]}
    ELSE IF Len(destinations) <= max_exact_size
         THEN {[route |-> exact_search(origin, destinations),
                asked |-> exact_asked(origin, destinations)]}
         ELSE optimize_route_run(origin, destinations)

\* optimize_route_exact(origin, destinations, network)
optimize_route_exact(origin, destinations) ==
    {t.route : t \in optimize_route_exact_run(origin, destinations)}

(***************************************************************************)
(* optimize_route_exact called on its own                                  *)
(***************************************************************************)
MaxDests == 3

RouteNets == {2, 3}

\* lists of at most n distinct elements of S
DistinctSeqs(S, n) ==
    UNION {{p \in [1..k -> S] : \A i, j \in 1..k : i # j => p[i] # p[j]} : k \in 0..n}

InitRoute ==
    /\ \E n \in RouteNets : OracleReady(n)
    /\ uin \in {[origin |-> o, destinations |-> d] :
                  o \in {Net.origin_code, "HAN", "XXX"},
                  d \in DistinctSeqs(NodeSet(Net), MaxDests)}
    /\ inst = 0
    /\ uout = <<>>
    /\ ustep = "none"
    /\ NoOptimizer

CallRouteExact ==
    /\ ustep = "none"
    /\ \E t \in optimize_route_exact_run(uin.origin, uin.destinations) :
         /\ uout' = t.route
         /\ distance_cache' = Remember(distance_cache, t.asked)
    /\ ustep' = "optimize_route_exact"
    /\ UNCHANGED <<net, nq, lastQuery, inst, uin, optVars>>

NextRoute == CallRouteExact

SpecRoute == InitRoute /\ [][NextRoute]_vars

\* the position of a destination in the list given by the caller
IndexIn(s, x) == CHOOSE i \in 1..Len(s) : s[i] = x

\* p comes before q in the enumeration of the orderings of s
EnumeratedBefore(s, p, q) ==
    \E k \in 1..Len(s) :
        /\ \A j \in 1..(k - 1) : p[j] = q[j]
        /\ IndexIn(s, p[k]) < IndexIn(s, q[k])

\* C7: for at most 5 distinct destinations optimize_route_exact returns an
\* ordering of them whose total distance from the origin is the least of
\* all orderings, and of the orderings of that least distance, the one
\* enumerated first
C7_ExactIsBruteForceMinimum ==
    (ustep = "optimize_route_exact" /\ Len(uin.destinations) <= 5) =>
        LET all == Orderings(Range(uin.destinations))
            d(p) == calculate_route_distance(uin.origin, p)
        IN  /\ uout \in all
            /\ \A p \in all : LeInf(d(uout), d(p))
            /\ \A p \in all : (p # uout /\ d(p) = d(uout))
                                  => EnumeratedBefore(uin.destinations, uout, p)

\* three destinations on the star, two orderings tie for the least distance
\* and the result is not the order given by the caller
C7_Witness ==
    /\ ustep = "optimize_route_exact"
    /\ net = 2
    /\ uin.origin = "NNG"
    /\ uin.destinations = <<"VTE", "BKK", "HAN">>
    /\ uout = <<"VTE", "HAN", "BKK">>
    /\ calculate_route_distance("NNG", <<"HAN", "VTE", "BKK">>)
         = calculate_route_distance("NNG", uout)

(***************************************************************************)
(* optimize_solution_routes (route_optimizer.py)                           *)
(* A solution is a function from vehicle ids to lists of shipment ids; the *)
(* dictionary is always walked in fleet order.                             *)
(***************************************************************************)
\* the solutions that give every vehicle one of its options, options being
\* a function from vehicle ids to sets of lists
RECURSIVE ProductUpTo(_, _)
ProductUpTo(options, k) ==
    IF k = 0 THEN {<<>>}
    ELSE LET v == Instance.fleet[k]
         IN  {(v :> x) @@ f : f \in ProductUpTo(options, k - 1), x \in options[v]}

Product(options) == ProductUpTo(options, Len(Instance.fleet))

\* list(set(s.delivery_location_id for s in shipments)): the distinct
\* destinations in the iteration order of a Python set, which depends on the
\* hashes and on the insertion order; any order can come out
set_as_list(shipments) == Orderings({Dest(s) : s \in Range(shipments)})

reorder_mut(shipments, optimized_order) ==
    LET order_map == [s \in Range(shipments) |-> IndexIn(optimized_order, Dest(s))]
    IN  SortedBy(Reverse(shipments), order_map)

\* order_map and the stable sort of one vehicle's shipments
reorder(shipments, optimized_order) ==
    LET order_map == [s \in Range(shipments) |-> IndexIn(optimized_order, Dest(s))]
    IN  SortedBy(shipments, order_map)

\* the lists optimize_solution_routes can give one vehicle, each with the
\* pairs asked on the way to it
route_options(shipments, origin) ==
    IF shipments = <<>> THEN {[list |-> <<>>, asked |-> {}]}
    ELSE UNION {{[list |-> reorder(shipments, t.route), asked |-> t.asked] :
                    t \in optimize_route_exact_run(origin, destinations)} :
                 destinations \in set_as_list(shipments)}

\* the loop of optimize_solution_routes over the first k vehicles
RECURSIVE routes_up_to(_, _)
routes_up_to(solution, k) ==
    IF k = 0 THEN {[solution |-> <<>>, asked |-> {}]}
    ELSE LET v == Instance.fleet[k]
         IN  {[solution |-> (v :> x.list) @@ f.solution, asked |-> f.asked \cup x.asked] :
                f \in routes_up_to(solution, k - 1),
                x \in route_options(solution[v], DefaultOrigin)}

\* optimize_solution_routes(solution, network), origin keeping its default:
\* each solution it can return, with the pairs asked on the way to it
optimize_solution_routes_run(solution) == routes_up_to(solution, Len(Instance.fleet))

\* optimize_solution_routes(solution, network)
optimize_solution_routes(solution) ==
    {t.solution : t \in optimize_solution_routes_run(solution)}

(***************************************************************************)
(* Solution validator (src/utils/validators.py): capacity part             *)
(***************************************************************************)
\* the volume test of _validate_capacities
VolumeBreach(total_cbm, vehicle) == ~WithinTolerance(total_cbm, Instance.max_cbm[vehicle])

WeightBreach_mut(total_weight, vehicle) == total_weight > Instance.max_weight[vehicle]

WeightBreach(total_weight, vehicle) ==
    ~WithinTolerance(total_weight, Instance.max_weight[vehicle])

\* ValidationResult.add_violation
add_violation(result, message) ==
    [result EXCEPT !.violations = Append(@, message), !.is_valid = FALSE]

\* SolutionValidator._validate_capacities, vehicles k.. of the fleet
RECURSIVE validate_capacities(_, _, _)
validate_capacities(solution, k, result) ==
    IF k > Len(Instance.fleet) THEN result
    ELSE LET vehicle == Instance.fleet[k]
             total_cbm == SumCbm(solution[vehicle])
             total_weight == SumWeight(solution[vehicle])
             r1 == IF VolumeBreach(total_cbm, vehicle)
                   THEN add_violation(result, <<vehicle, "volume">>) ELSE result
             r2 == IF WeightBreach(total_weight, vehicle)
                   THEN add_violation(r1, <<vehicle, "weight">>) ELSE r1
         IN  validate_capacities(solution, k + 1, r2)

\* SolutionValidator.validate_solution
validate_solution(solution) ==
    validate_capacities(solution, 1, [is_valid |-> TRUE, violations |-> <<>>])

(***************************************************************************)
(* Neighborhood operators (src/optimization/neighborhood.py)               *)
(* Each operator is the set of the solutions its random choices can give.  *)
(***************************************************************************)
\* the capacity test of single_swap and destination_swap
swap_fits(solution, v1, v2, s1, s2) ==
    LET v1_new_cbm == SumCbm(ListRemove(solution[v1], s1)) + Instance.total_cbm[s2]
        v1_new_weight == SumWeight(ListRemove(solution[v1], s1)) + Instance.weight[s2]
        v2_new_cbm == SumCbm(ListRemove(solution[v2], s2)) + Instance.total_cbm[s1]
        v2_new_weight == SumWeight(ListRemove(solution[v2], s2)) + Instance.weight[s1]
    IN  /\ v1_new_cbm <= Instance.max_cbm[v1] /\ v1_new_weight <= Instance.max_weight[v1]
        /\ v2_new_cbm <= Instance.max_cbm[v2] /\ v2_new_weight <= Instance.max_weight[v2]

\* the capacity test of proximity_swap: volume only
proximity_fits(solution, v1, v2, s1, s2) ==
    LET v1_new_cbm == SumCbm(ListRemove(solution[v1], s1)) + Instance.total_cbm[s2]
        v2_new_cbm == SumCbm(ListRemove(solution[v2], s2)) + Instance.total_cbm[s1]
    IN  v1_new_cbm <= Instance.max_cbm[v1] /\ v2_new_cbm <= Instance.max_cbm[v2]

\* remove s1 and s2, append each to the other vehicle
exchange_mut(solution, v1, v2, s1, s2) ==
    [solution EXCEPT ![v1] = Append(ListRemove(@, s1), s2),
                     ![v2] = Append(@, s1)]

exchange(solution, v1, v2, s1, s2) ==
    [solution EXCEPT ![v1] = Append(ListRemove(@, s1), s2),
                     ![v2] = Append(ListRemove(@, s2), s1)]

single_swap(solution, v1, v2) ==
    IF solution[v1] = <<>> \/ solution[v2] = <<>> THEN {solution}
    ELSE {IF swap_fits(solution, v1, v2, s1, s2)
          THEN exchange(solution, v1, v2, s1, s2) ELSE solution :
            s1 \in Range(solution[v1]), s2 \in Range(solution[v2])}

destination_swap(solution, v1, v2) ==
    IF solution[v1] = <<>> \/ solution[v2] = <<>> THEN {solution}
    ELSE LET common == {Dest(s) : s \in Range(solution[v1])}
                         \cap {Dest(s) : s \in Range(solution[v2])}
         IN  IF common = {} THEN {solution}
             ELSE UNION {{IF swap_fits(solution, v1, v2, s1, s2)
                          THEN exchange(solution, v1, v2, s1, s2) ELSE solution :
                            s1 \in {s \in Range(solution[v1]) : Dest(s) = dest},
                            s2 \in {s \in Range(solution[v2]) : Dest(s) = dest}} :
                         dest \in common}

ProximityLimit == 500

\* the nested loops of proximity_swap from the pair (i, j) on (1-based);
\* asked collects the pairs whose distance the loops ask
RECURSIVE proximity_scan(_, _, _, _, _, _)
proximity_scan(solution, v1, v2, i, j, asked) ==
    IF i > Len(solution[v1]) THEN [solution |-> solution, asked |-> asked]
    ELSE IF j > Len(solution[v2]) THEN proximity_scan(solution, v1, v2, i + 1, 1, asked)
    ELSE LET s1 == solution[v1][i]
             s2 == solution[v2][j]
             distance == Dist(Dest(s1), Dest(s2))
             now == asked \cup {<<Dest(s1), Dest(s2)>>}
         IN  IF LtInf(distance, ProximityLimit) /\ proximity_fits(solution, v1, v2, s1, s2)
             THEN [solution |-> exchange(solution, v1, v2, s1, s2), asked |-> now]
             ELSE proximity_scan(solution, v1, v2, i, j + 1, now)

\* proximity_swap(solution, v1, v2, network): the solution returned and the
\* pairs asked
proximity_swap_run(solution, v1, v2) ==
    IF solution[v1] = <<>> \/ solution[v2] = <<>>
    THEN {[solution |-> solution, asked |-> {}]}
    ELSE {proximity_scan(solution, v1, v2, 1, 1, {})}

proximity_swap(solution, v1, v2) ==
    {t.solution : t \in proximity_swap_run(solution, v1, v2)}

transfer_fits_mut(solution, target, shipments_to_move) ==
    SumCbm(solution[target]) + SumCbm(shipments_to_move) <= Instance.max_cbm[target]

\* transfer_shipment(solution, network)
transfer_fits(solution, target, shipments_to_move) ==
    /\ SumCbm(solution[target]) + SumCbm(shipments_to_move) <= Instance.max_cbm[target]
    /\ SumWeight(solution[target]) + SumWeight(shipments_to_move)
          <= Instance.max_weight[target]

RECURSIVE remove_all(_, _)
remove_all(list, shipments_to_move) ==
    IF shipments_to_move = <<>> THEN list
    ELSE remove_all(ListRemove(list, Head(shipments_to_move)), Tail(shipments_to_move))

\* random.sample(list, k): k distinct positions of the list in any order
Samples(list, k) ==
    {[i \in 1..k |-> list[p[i]]] :
        p \in {q \in [1..k -> 1..Len(list)] : \A i, j \in 1..k : i # j => q[i] # q[j]}}

Min(a, b) == IF a <= b THEN a ELSE b

transfer_shipment(solution) ==
    LET active == {v \in VehicleSet : solution[v] # <<>>}
    IN  IF active = {} THEN {solution}
        ELSE UNION {
               LET targets == VehicleSet \ {source}
               IN  IF targets = {} THEN {solution}
                   ELSE UNION {UNION {
                          {IF transfer_fits(solution, target, shipments_to_move)
                           THEN [solution EXCEPT
                                   ![source] = remove_all(@, shipments_to_move),
                                   ![target] = @ \o shipments_to_move]
                           ELSE solution :
                             shipments_to_move \in Samples(solution[source], num_to_transfer)} :
                          num_to_transfer \in 1..Min(3, Len(solution[source]))} :
                        target \in targets} :
               source \in active}

\* "result is not solution": every strategy returns the dictionary it was
\* given, changed in place or not, so the test never finds a new object
strategy_returns_new_object == FALSE

\* an operator that asks no distance
NothingAsked(results) == {[solution |-> r, asked |-> {}] : r \in results}

apply_strategy(strategy, solution, v1, v2) ==
    CASE strategy = "single_swap" -> NothingAsked(single_swap(solution, v1, v2))
      [] strategy = "destination_swap" -> NothingAsked(destination_swap(solution, v1, v2))
      [] strategy = "proximity_swap" -> proximity_swap_run(solution, v1, v2)

\* the loop "for strategy in strategies" from the k-th strategy on
RECURSIVE try_strategies(_, _, _, _, _, _)
try_strategies(strategies, k, solution, v1, v2, asked) ==
    IF k > Len(strategies) THEN {[solution |-> solution, asked |-> asked]}
    ELSE UNION {IF strategy_returns_new_object
                THEN {[solution |-> result.solution, asked |-> asked \cup result.asked]}
                ELSE try_strategies(strategies, k + 1, result.solution, v1, v2,
                                    asked \cup result.asked) :
                  result \in apply_strategy(strategies[k], solution, v1, v2)}

\* swap_between_vehicles(solution, network): each solution it can return,
\* with the pairs asked on the way to it
swap_between_vehicles_run(solution) ==
    IF Len(Instance.fleet) < 2 THEN NothingAsked({solution})
    ELSE UNION {IF solution[pair[1]] = <<>> \/ solution[pair[2]] = <<>>
                THEN NothingAsked(transfer_shipment(solution))
                ELSE UNION {try_strategies(strategies, 1, solution, pair[1], pair[2], {}) :
                              strategies \in Orderings({"single_swap", "destination_swap",
                                                        "proximity_swap"})} :
                  pair \in {q \in VehicleSet \X VehicleSet : q[1] # q[2]}}

\* swap_between_vehicles(solution, network)
swap_between_vehicles(solution) ==
    {t.solution : t \in swap_between_vehicles_run(solution)}

\* relocate_within_vehicle(solution)
relocate_within_vehicle(solution) ==
    LET candidates == {v \in VehicleSet : Len(solution[v]) >= 2}
    IN  IF candidates = {} THEN {solution}
        ELSE UNION {{IF old_pos # new_pos
                     THEN [solution EXCEPT ![vehicle] =
                             ListInsert(RemoveAt(@, old_pos + 1), new_pos, @[old_pos + 1])]
                     ELSE solution :
                       old_pos \in 0..(Len(solution[vehicle]) - 1),
                       new_pos \in 0..(Len(solution[vehicle]) - 1)} :
                    vehicle \in candidates}

\* reverse_subroute(solution): list[start:end] reversed
reverse_subroute(solution) ==
    LET candidates == {v \in VehicleSet : Len(solution[v]) >= 3}
    IN  IF candidates = {} THEN {solution}
        ELSE UNION {UNION {{[solution EXCEPT ![vehicle] =
                               SubSeq(@, 1, start) \o Reverse(SubSeq(@, start + 1, end))
                                   \o SubSeq(@, end + 1, Len(@))] :
                             end \in (start + 2)..Len(solution[vehicle])} :
                           start \in 0..(Len(solution[vehicle]) - 3)} :
                    vehicle \in candidates}

\* generate_neighbor(solution, network): the move is made on a deep copy;
\* each neighbor with the pairs asked on the way to it
generate_neighbor_run(solution) ==
    swap_between_vehicles_run(solution)
        \cup NothingAsked(transfer_shipment(solution) \cup relocate_within_vehicle(solution)
                             \cup reverse_subroute(solution))

\* generate_neighbor(solution, network)
generate_neighbor(solution) ==
    {t.solution : t \in generate_neighbor_run(solution)}

\* consolidate_destinations: the (vehicle, shipment) pairs in the order the
\* solution is walked, vehicles k.. of the fleet
RECURSIVE walk_items(_, _)
walk_items(solution, k) ==
    IF k > Len(Instance.fleet) THEN <<>>
    ELSE [i \in 1..Len(solution[Instance.fleet[k]]) |->
             <<Instance.fleet[k], solution[Instance.fleet[k]][i]>>]
         \o walk_items(solution, k + 1)

\* the loop "for vehicle, shipment in items" from item i on
RECURSIVE move_items(_, _, _, _)
move_items(items, i, solution, best_vehicle) ==
    IF i > Len(items) THEN solution
    ELSE LET vehicle == items[i][1]
             shipment == items[i][2]
             current_cbm == SumCbm(solution[best_vehicle])
         IN  IF vehicle # best_vehicle
                /\ current_cbm + Instance.total_cbm[shipment] <= Instance.max_cbm[best_vehicle]
             THEN move_items(items, i + 1,
                             [solution EXCEPT ![vehicle] = ListRemove(@, shipment),
                                              ![best_vehicle] = Append(@, shipment)],
                             best_vehicle)
             ELSE move_items(items, i + 1, solution, best_vehicle)

\* the loop "for dest, items in dest_shipments.items()" from destination k
\* on; max() over a set of vehicles takes any vehicle of greatest residual
RECURSIVE consolidate_from(_, _, _, _)
consolidate_from(all_items, dests, k, solution) ==
    IF k > Len(dests) THEN {solution}
    ELSE LET items == SelectSeq(all_items, LAMBDA it : Dest(it[2]) = dests[k])
             vehicles_for_dest == {items[i][1] : i \in 1..Len(items)}
             residual(v) == Instance.max_cbm[v] - SumCbm(solution[v])
             best == {v \in vehicles_for_dest :
                        \A w \in vehicles_for_dest : residual(v) >= residual(w)}
         IN  IF Len(items) <= 1 \/ Cardinality(vehicles_for_dest) <= 1
             THEN consolidate_from(all_items, dests, k + 1, solution)
             ELSE UNION {consolidate_from(all_items, dests, k + 1,
                                          move_items(items, 1, solution, best_vehicle)) :
                           best_vehicle \in best}

\* consolidate_destinations(solution, network)
consolidate_destinations(solution) ==
    LET all_items == walk_items(solution, 1)
        dests == Distinct([i \in 1..Len(all_items) |-> Dest(all_items[i][2])])
    IN  consolidate_from(all_items, dests, 1, solution)

(***************************************************************************)
(* Fuzzy numbers (src/fuzzy/fuzzy_number.py) and the cost model            *)
(* (src/models/cost.py).  Amounts inside calculate_route_cost are in       *)
(* thousandths; a fuzzy cost is in units of 1/CostScale.                   *)
(***************************************************************************)
CostScale == 60000

TFN(l, p, r) == [left |-> l, peak |-> p, right |-> r]

\* TriangularFuzzyNumber.zero(), .infinity(), __add__
FuzzyZero == TFN(0, 0, 0)

FuzzyInfinity == TFN(Inf, Inf, Inf)

FuzzyAdd_mut(a, b) ==
    TFN(a.left + b.left, a.peak + b.peak, a.right + b.right)

FuzzyAdd(a, b) ==
    TheOne({TFN(AddInf(x.left, y.left), AddInf(x.peak, y.peak), AddInf(x.right, y.right)) :
            x \in {a}, y \in {b}})

\* defuzzify(): the centroid (left + peak + right) / 3, counted in thirds of
\* the unit of the fuzzy number: the value here is left + peak + right, so
\* that (1, 1, 2) has the centroid 4 thirds
defuzzify(a) ==
    TheOne({IF x.left = Inf \/ x.peak = Inf \/ x.right = Inf THEN Inf
            ELSE x.left + x.peak + x.right : x \in {a}})

\* CostParameters: prices in thousandths, rates in percent, hours, km/h
fuel_price_per_liter == 800

per_diem_rate == 18000

max_driving_hours_per_day == 10

average_speed == 60

fuel_tank_capacity == 400

rest_time_per_day == 10

border_crossing_time == 4

default_tax_rate == 10

default_customs_fee == 160000

default_refuel_cost == 4000

overhead == 100000

emergency == 200000

\* CostParameters.tax_rates, in percent
tax_rates ==
    [c \in {"China", "Vietnam", "Laos", "Cambodia", "Thailand", "Myanmar",
             "Malaysia", "Singapore"} |->
        CASE c = "Thailand" -> 7 [] c = "Myanmar" -> 12 [] c = "Singapore" -> 8
          [] OTHER -> 10]

\* CostParameters.customs_fees: the keys as they are written in the table
customs_fees ==
    (<<"China", "Vietnam">> :> 160000) @@ (<<"China", "Laos">> :> 162000)
    @@ (<<"Vietnam", "Laos">> :> 162000) @@ (<<"Vietnam", "Cambodia">> :> 160000)
    @@ (<<"Laos", "Cambodia">> :> 160000) @@ (<<"Laos", "Thailand">> :> 161000)
    @@ (<<"Laos", "Myanmar">> :> 160000) @@ (<<"Cambodia", "Thailand">> :> 160000)
    @@ (<<"Myanmar", "Thailand">> :> 160000) @@ (<<"Thailand", "Malaysia">> :> 158000)
    @@ (<<"Malaysia", "Singapore">> :> 158000)

\* CostParameters.refuel_costs
refuel_costs ==
    [c \in {"China", "Vietnam", "Laos", "Cambodia", "Thailand", "Myanmar",
             "Malaysia", "Singapore"} |->
        CASE c = "China" -> 5000 [] c = "Thailand" -> 3000 [] c = "Malaysia" -> 3000
          [] c = "Singapore" -> 6000 [] OTHER -> 4000]

\* the country names in the order Python sorts strings
CountryOrder == <<"Cambodia", "China", "Laos", "Malaysia", "Myanmar", "Singapore",
                  "Thailand", "Unknown", "Vietnam">>

\* tuple(sorted([a, b]))
SortedPair(a, b) ==
    IF IndexIn(CountryOrder, a) <= IndexIn(CountryOrder, b) THEN <<a, b>> ELSE <<b, a>>

\* CostCalculator.get_customs_fee
get_customs_fee(from_country, to_country) ==
    LET countries == SortedPair(from_country, to_country)
    IN  IF countries \in DOMAIN customs_fees THEN customs_fees[countries]
        ELSE default_customs_fee

\* CostCalculator.get_tax_rate, calculate_tax, calculate_fuel_cost
get_tax_rate(country) ==
    IF country \in DOMAIN tax_rates THEN tax_rates[country] ELSE default_tax_rate

calculate_tax(goods_value, country) == goods_value * get_tax_rate(country) * 10

calculate_fuel_cost(distance, fuel_efficiency) ==
    (distance * fuel_efficiency * fuel_price_per_liter) \div 100

\* Network.get_country(node) or "Unknown"
get_country(node) ==
    IF node \in NodeSet(Net) THEN Net.country[node] ELSE "Unknown"

\* CostCalculator.get_driver_salary: the band of the daily rate, times days
get_driver_salary(distance, days) ==
    LET daily_rate ==
            IF distance <= 500 THEN TFN(24000, 26500, 29000)
            ELSE IF distance <= 1500 THEN TFN(27000, 29500, 32000)
            ELSE IF distance <= 3000 THEN TFN(29000, 31000, 33000)
            ELSE TFN(31000, 32500, 34000)
    IN  TFN(daily_rate.left * days, daily_rate.peak * days, daily_rate.right * days)

\* stop_values: the summed price of the shipments bound for a stop
RECURSIVE SumPrice(_, _)
SumPrice(shipments, node) ==
    IF shipments = <<>> THEN 0
    ELSE (IF Dest(Head(shipments)) = node THEN Instance.price[Head(shipments)] ELSE 0)
         + SumPrice(Tail(shipments), node)

\* fuel_range = fuel_tank_capacity / fuel_efficiency, as the double the
\* program gets; fuel_efficiency is the double nearest to its hundredths
fuel_range(fuel_efficiency) ==
    FloatDiv(Float(fuel_tank_capacity), FloatDiv(Float(fuel_efficiency), Float(100)))

\* refuel_stops = max(0, int(distance / fuel_range)).  The quotient is
\* within 0.000001 of distance x fuel_efficiency / fuel_tank_capacity, so
\* its rounding can change int() only when the leg is a whole number of
\* tanks (the double can fall just below that number), and only there is it
\* worked out.
refuel_stops(distance, fuel_efficiency) ==
    IF distance = 0 \/ (distance * fuel_efficiency) % (fuel_tank_capacity * 100) # 0
    THEN (distance * fuel_efficiency) \div (fuel_tank_capacity * 100)
    ELSE Truncate(FloatDiv(Float(distance), fuel_range(fuel_efficiency)))

\* the loop over the legs of calculate_route_cost, from leg i on; acc holds
\* the running totals, or failed when a leg is infinite
RECURSIVE cost_legs(_, _, _, _, _)
cost_legs(route, i, fuel_efficiency, shipments, acc) ==
    IF i >= Len(route) THEN acc
    ELSE LET from_node == route[i]
             to_node == route[i + 1]
             from_country == get_country(from_node)
             to_country == get_country(to_node)
             is_border_crossing == from_country # to_country
             goods_value == SumPrice(shipments, to_node)
             leg(distance) ==
                 [failed |-> FALSE,
                  total_distance |-> acc.total_distance + distance,
                  total_fuel_cost |-> acc.total_fuel_cost
                                        + calculate_fuel_cost(distance, fuel_efficiency),
                  total_refuel_stops |-> acc.total_refuel_stops
                     + refuel_stops(distance, fuel_efficiency),
                  border_crossings |-> acc.border_crossings
                                         + (IF is_border_crossing THEN 1 ELSE 0),
                  total_customs_fee |-> acc.total_customs_fee
                     + (IF is_border_crossing
                        THEN get_customs_fee(from_country, to_country) ELSE 0),
                  total_tax |-> acc.total_tax
                     + (IF goods_value > 0 THEN calculate_tax(goods_value, to_country)
                        ELSE 0)]
         IN  TheOne({IF distance = Inf THEN [acc EXCEPT !.failed = TRUE]
                     ELSE TheOne({cost_legs(route, i + 1, fuel_efficiency, shipments, next) :
                                  next \in {leg(distance)}}) :
                     distance \in {Dist(from_node, to_node)}})

\* the pairs asked by a loop over the legs of route, from leg i on, that
\* returns at the first leg without a path
RECURSIVE legs_asked(_, _)
legs_asked(route, i) ==
    IF i >= Len(route) THEN {}
    ELSE {<<route[i], route[i + 1]>>}
         \cup (IF Dist(route[i], route[i + 1]) = Inf THEN {} ELSE legs_asked(route, i + 1))

\* the pairs calculate_route_cost asks
route_cost_asked(route) == IF Len(route) < 2 THEN {} ELSE legs_asked(route, 1)

Max(a, b) == IF a >= b THEN a ELSE b

\* CostCalculator.calculate_route_cost(route, network, vehicle, shipments)
calculate_route_cost(route, vehicle, shipments) ==
    LET \* driving_hours = distance / speed + crossings * border_crossing_time,
        \* trip_days = max(1, int((driving_hours + rest - 1) / (max + rest)) + 1)
        trip_days(acc) ==
            Max(1, (acc.total_distance
                      + acc.border_crossings * border_crossing_time * average_speed
                      + (rest_time_per_day - 1) * average_speed)
                   \div ((max_driving_hours_per_day + rest_time_per_day) * average_speed)
                   + 1)
        per_diem(acc) == per_diem_rate * trip_days(acc)
        driver_salary(acc) == get_driver_salary(acc.total_distance, trip_days(acc))
        \* network.get_country(route[0]) or "China"
        origin_country ==
            IF route[1] \in NodeSet(Net) THEN Net.country[route[1]] ELSE "China"
        refuel_service(acc) ==
            (IF origin_country \in DOMAIN refuel_costs THEN refuel_costs[origin_country]
             ELSE default_refuel_cost) * acc.total_refuel_stops
        \* driver_salary.defuzzify(): the bands of get_driver_salary have
        \* centroids that are whole thousandths, so the division is exact
        base_cost(acc) == per_diem(acc) + defuzzify(driver_salary(acc)) \div 3
                            + acc.total_fuel_cost
                            + acc.total_customs_fee + acc.total_tax + overhead + emergency
                            + refuel_service(acc)
    IN  IF Len(route) < 2 THEN FuzzyInfinity
        ELSE TheOne({IF acc.failed THEN FuzzyInfinity
                     ELSE TheOne({TFN(b * 57, b * 60, b * 63) : b \in {base_cost(acc)}}) :
                     acc \in {cost_legs(route, 1, Instance.fuel_efficiency[vehicle], shipments,
                                 [failed |-> FALSE, total_distance |-> 0, total_fuel_cost |-> 0,
                                  total_refuel_stops |-> 0, border_crossings |-> 0,
                                  total_customs_fee |-> 0, total_tax |-> 0])}})

\* evaluate_route_efficiency(route, network): origin keeps its default
RepeatPenalty == 2000

RECURSIVE repeats(_)
repeats(route) ==
    IF route = <<>> THEN 0
    ELSE TheOne({(IF route[Len(route)] \in Range(front) THEN 1 ELSE 0) + repeats(front) :
                 front \in {SubSeq(route, 1, Len(route) - 1)}})

RECURSIVE backtracking_mut(_, _)
backtracking_mut(full_route, i) ==
    IF i >= Len(full_route) - 2 THEN 0
    ELSE LET a == full_route[i + 1]
             b == full_route[i + 2]
             c == full_route[i + 3]
             direct == Dist(a, c)
             through_b == AddInf(Dist(a, b), Dist(b, c))
         IN  (IF direct # Inf /\ through_b # Inf /\ 10 * through_b > 13 * direct
              THEN (through_b - direct) * 2 ELSE 0)
             + backtracking_mut(full_route, i + 1)

\* the loop over the triples of full_route at i, i + 2, ... (0-based i)
RECURSIVE backtracking(_, _)
backtracking(full_route, i) ==
    IF i >= Len(full_route) - 2 THEN 0
    ELSE LET a == full_route[i + 1]
             b == full_route[i + 2]
             c == full_route[i + 3]
             direct == Dist(a, c)
             through_b == AddInf(Dist(a, b), Dist(b, c))
         IN  (IF direct # Inf /\ through_b # Inf /\ 10 * through_b > 13 * direct
              THEN (through_b - direct) * 2 ELSE 0)
             + backtracking(full_route, i + 2)

\* the pairs the loop over the triples asks
RECURSIVE backtracking_asked(_, _)
backtracking_asked(full_route, i) ==
    IF i >= Len(full_route) - 2 THEN {}
    ELSE {<<full_route[i + 1], full_route[i + 3]>>, <<full_route[i + 1], full_route[i + 2]>>,
          <<full_route[i + 2], full_route[i + 3]>>}
         \cup backtracking_asked(full_route, i + 2)

\* the pairs evaluate_route_efficiency asks: the legs up to the first one
\* without a path, and the triples when every leg has a path
route_efficiency_asked(route) ==
    IF Len(route) <= 1 THEN {}
    ELSE LET full_route == <<DefaultOrigin>> \o route
         IN  legs_asked(full_route, 1)
             \cup (IF route_legs(full_route, 1) = Inf THEN {}
                   ELSE backtracking_asked(full_route, 0))

evaluate_route_efficiency(route) ==
    IF Len(route) <= 1 THEN 0
    ELSE LET full_route == <<DefaultOrigin>> \o route
         IN  TheOne({IF total_distance = Inf THEN Inf
                     ELSE total_distance + RepeatPenalty * repeats(route)
                            + backtracking(full_route, 0) :
                     total_distance \in {route_legs(full_route, 1)}})

(***************************************************************************)
(* SimulatedAnnealingOptimizer._evaluate (src/optimization/optimizer.py).  *)
(* vehicles is the recorded load state of the Vehicle objects              *)
(* (current_load_cbm, current_load_weight), which only the initial         *)
(* constructor writes.                                                     *)
(***************************************************************************)
UtilizationPenalty == TFN(500 * CostScale, 750 * CostScale, 1000 * CostScale)

\* Vehicle.get_utilization() followed by  vol_util < 60 or weight_util < 30
under_utilized(vehicles, vehicle) ==
    LET max_weight == Instance.max_weight[vehicle]
        max_cbm == Instance.max_cbm[vehicle]
    IN  \/ (IF max_cbm > 0 THEN 100 * vehicles[vehicle].current_load_cbm < 60 * max_cbm
            ELSE TRUE)
        \/ (IF max_weight > 0
            THEN 100 * vehicles[vehicle].current_load_weight < 30 * max_weight
            ELSE TRUE)

\* the body of the loop of _evaluate for one loaded vehicle
vehicle_cost(vehicles, vehicle, shipments) ==
    LET with_util(route_cost) ==
            IF under_utilized(vehicles, vehicle)
            THEN FuzzyAdd(route_cost, UtilizationPenalty) ELSE route_cost
        eff_penalty(efficiency) ==
            IF efficiency = Inf THEN FuzzyInfinity
            ELSE TFN(efficiency * (CostScale \div 10),
                     efficiency * ((15 * CostScale) \div 100),
                     efficiency * (CostScale \div 5))
        priced(route) ==
            TheOne({IF efficiency = Inf \/ efficiency > 0
                    THEN FuzzyAdd(with_util(route_cost), eff_penalty(efficiency))
                    ELSE with_util(route_cost) :
                    route_cost \in {calculate_route_cost(route, vehicle, shipments)},
                    efficiency \in {evaluate_route_efficiency(route)}})
    IN  TheOne({priced(route) :
                route \in {<<Net.origin_code>>
                             \o Distinct([i \in DOMAIN shipments |-> Dest(shipments[i])])}})

RECURSIVE evaluate_from(_, _, _, _)
evaluate_from(solution, vehicles, k, total_cost) ==
    IF k > Len(Instance.fleet) THEN total_cost
    ELSE LET vehicle == Instance.fleet[k]
         IN  IF solution[vehicle] = <<>>
             THEN evaluate_from(solution, vehicles, k + 1, total_cost)
             ELSE TheOne({evaluate_from(solution, vehicles, k + 1, sum) :
                          sum \in {TheOne({FuzzyAdd(total_cost,
                                                   vehicle_cost(vehicles, vehicle, shipments)) :
                                           shipments \in {solution[vehicle]}})}})

\* the pairs _evaluate asks: for every loaded vehicle those of
\* calculate_route_cost and of evaluate_route_efficiency on its route
evaluate_asked(solution) ==
    UNION {TheOne({route_cost_asked(route) \cup route_efficiency_asked(route) :
                   route \in {<<Net.origin_code>>
                                \o Distinct([i \in DOMAIN solution[v] |->
                                               Dest(solution[v][i])])}}) :
           v \in {w \in VehicleSet : solution[w] # <<>>}}

\* _evaluate(solution): the fuzzy cost, the validation result and the pairs
\* whose distance was asked
evaluate(solution, vehicles) ==
    [cost |-> evaluate_from(solution, vehicles, 1, FuzzyZero),
     validation |-> validate_solution(solution),
     asked |-> evaluate_asked(solution)]

(***************************************************************************)
(* SolutionGenerator (src/optimization/initial_solution.py)                *)
(***************************************************************************)
\* sorted(s, key=..., reverse=True): stable, largest key first
RECURSIVE SortedByDesc(_, _)
SortedByDesc(s, key) ==
    IF s = <<>> THEN <<>>
    ELSE LET x == s[Len(s)]
             \* x goes after every element whose key is >= its own
             pos(init) == Cardinality({i \in 1..Len(init) : key[init[i]] >= key[x]})
         IN  TheOne({SubSeq(init, 1, pos(init)) \o <<x>>
                        \o SubSeq(init, pos(init) + 1, Len(init)) :
                     init \in {SortedByDesc(SubSeq(s, 1, Len(s) - 1), key)}})

\* Vehicle.reset_state() on every vehicle: each records a load of zero and
\* no shipment
reset_state ==
    TheOne([VehicleSet -> {[current_load_cbm |-> 0, current_load_weight |-> 0,
                            shipments |-> <<>>]}])

can_add_shipment_mut(vehicles, vehicle, shipment) ==
    WithinTolerance(vehicles[vehicle].current_load_cbm + Instance.total_cbm[shipment],
                    Instance.max_cbm[vehicle])

\* Vehicle.can_add_shipment: against the recorded load
can_add_shipment(vehicles, vehicle, shipment) ==
    /\ WithinTolerance(vehicles[vehicle].current_load_cbm + Instance.total_cbm[shipment],
                       Instance.max_cbm[vehicle])
    /\ WithinTolerance(vehicles[vehicle].current_load_weight + Instance.weight[shipment],
                       Instance.max_weight[vehicle])

\* Vehicle.add_shipment: nothing is recorded when the shipment does not fit
add_shipment(vehicles, vehicle, shipment) ==
    IF ~can_add_shipment(vehicles, vehicle, shipment) THEN vehicles
    ELSE [vehicles EXCEPT
            ![vehicle] = [current_load_cbm |-> @.current_load_cbm + Instance.total_cbm[shipment],
                          current_load_weight |-> @.current_load_weight
                                                    + Instance.weight[shipment],
                          shipments |-> Append(vehicles[vehicle].shipments, shipment)]]

\* Vehicle.remove_shipment: the value returned and what the vehicles record
\* afterwards; nothing changes when the vehicle does not list the shipment
remove_shipment(vehicles, vehicle, shipment) ==
    IF shipment \notin Range(vehicles[vehicle].shipments)
    THEN [value |-> FALSE, vehicles |-> vehicles]
    ELSE [value |-> TRUE,
          vehicles |-> [vehicles EXCEPT
            ![vehicle] = [current_load_cbm |-> @.current_load_cbm - Instance.total_cbm[shipment],
                          current_load_weight |-> @.current_load_weight
                                                    - Instance.weight[shipment],
                          shipments |-> ListRemove(vehicles[vehicle].shipments, shipment)]]]

\* dest_groups: the shipments bound for dest, in input order
dest_group(dest) == SelectSeq(Instance.shipments, LAMBDA s : Dest(s) = dest)

\* sorted_destinations: the destinations in first-occurrence order, sorted by
\* (distance from the depot, -total volume)
sorted_destinations ==
    TheOne({TheOne({SortedBy(by_volume, distance) :
                    by_volume \in {SortedByDesc(dests, volume)}}) :
            dests \in {Distinct([i \in DOMAIN Instance.shipments |->
                                   Dest(Instance.shipments[i])])},
            volume \in {[d \in {Dest(s) : s \in ShipmentSet} |-> SumCbm(dest_group(d))]},
            distance \in {[d \in {Dest(s) : s \in ShipmentSet} |-> Dist(Net.origin_code, d)]}})

RECURSIVE best_fit_mut(_, _, _, _, _)
best_fit_mut(solution, sorted_group, k, best_vehicle, best_remaining) ==
    IF k > Len(Instance.fleet) THEN best_vehicle
    ELSE LET vehicle == Instance.fleet[k]
             new_cbm == SumCbm(solution[vehicle]) + SumCbm(sorted_group)
             new_weight == SumWeight(solution[vehicle]) + SumWeight(sorted_group)
             remaining == Instance.max_cbm[vehicle] - new_cbm
         IN  IF /\ WithinTolerance(new_cbm, Instance.max_cbm[vehicle])
                /\ WithinTolerance(new_weight, Instance.max_weight[vehicle])
                /\ (best_vehicle = "" \/ remaining <= best_remaining)
             THEN best_fit_mut(solution, sorted_group, k + 1, vehicle, remaining)
             ELSE best_fit_mut(solution, sorted_group, k + 1, best_vehicle, best_remaining)

\* the scan for the vehicle with the least volume left after the whole group
RECURSIVE best_fit(_, _, _, _, _)
best_fit(solution, sorted_group, k, best_vehicle, best_remaining) ==
    IF k > Len(Instance.fleet) THEN best_vehicle
    ELSE LET vehicle == Instance.fleet[k]
             new_cbm == SumCbm(solution[vehicle]) + SumCbm(sorted_group)
             new_weight == SumWeight(solution[vehicle]) + SumWeight(sorted_group)
             remaining == Instance.max_cbm[vehicle] - new_cbm
         IN  IF /\ WithinTolerance(new_cbm, Instance.max_cbm[vehicle])
                /\ WithinTolerance(new_weight, Instance.max_weight[vehicle])
                /\ (best_vehicle = "" \/ remaining < best_remaining)
             THEN best_fit(solution, sorted_group, k + 1, vehicle, remaining)
             ELSE best_fit(solution, sorted_group, k + 1, best_vehicle, best_remaining)

\* the whole group goes on best_vehicle
RECURSIVE assign_group(_, _, _)
assign_group(st, sorted_group, best_vehicle) ==
    IF sorted_group = <<>> THEN st
    ELSE TheOne({assign_group(next, Tail(sorted_group), best_vehicle) :
                 next \in {[solution |-> [st.solution EXCEPT
                                            ![best_vehicle] = Append(@, Head(sorted_group))],
                            vehicles |-> add_shipment(st.vehicles, best_vehicle,
                                                      Head(sorted_group)),
                            warnings |-> st.warnings]}})

\* the first vehicle (from fleet position k) whose recorded load admits the shipment
RECURSIVE first_fit(_, _, _)
first_fit(vehicles, shipment, k) ==
    IF k > Len(Instance.fleet) THEN ""
    ELSE IF can_add_shipment(vehicles, Instance.fleet[k], shipment) THEN Instance.fleet[k]
    ELSE first_fit(vehicles, shipment, k + 1)

\* the group is split: each shipment goes on the first vehicle that admits
\* it, and is left out with a warning when none does (the warning is kept
\* with the loads the vehicles recorded at that moment)
RECURSIVE assign_individually(_, _)
assign_individually(st, sorted_group) ==
    IF sorted_group = <<>> THEN st
    ELSE LET shipment == Head(sorted_group)
             placed(vehicle) ==
                 IF vehicle = ""
                 THEN [solution |-> st.solution,
                       vehicles |-> st.vehicles,
                       warnings |-> Append(st.warnings, [shipment |-> shipment,
                                                         vehicles |-> st.vehicles])]
                 ELSE [solution |-> [st.solution EXCEPT ![vehicle] = Append(@, shipment)],
                       vehicles |-> add_shipment(st.vehicles, vehicle, shipment),
                       warnings |-> st.warnings]
         IN  TheOne({assign_individually(next, Tail(sorted_group)) :
                     next \in {placed(first_fit(st.vehicles, shipment, 1))}})

RECURSIVE assign_groups(_, _, _)
assign_groups(st, dests, k) ==
    IF k > Len(dests) THEN st
    ELSE LET cbm == [s \in ShipmentSet |-> Instance.total_cbm[s]]
             sorted_group == SortedByDesc(dest_group(dests[k]), cbm)
             best_vehicle == best_fit(st.solution, sorted_group, 1, "", 0)
         IN  TheOne({assign_groups(next, dests, k + 1) :
                     next \in {IF best_vehicle # ""
                               THEN assign_group(st, sorted_group, best_vehicle)
                               ELSE assign_individually(st, sorted_group)}})

\* _generate_ffd_grouped(): the assignment and the load the vehicles record
generate_ffd_grouped ==
    TheOne({assign_groups([solution |-> [v \in VehicleSet |-> <<>>],
                           vehicles |-> reset_state, warnings |-> <<>>], dests, 1) :
            dests \in {sorted_destinations}})

\* the pairs _generate_ffd_grouped asks: from the depot to every destination
ffd_grouped_asked == {<<Net.origin_code, Dest(s)>> : s \in ShipmentSet}

\* generate("ffd_grouped"): the assignment, then optimize_solution_routes;
\* with the pairs whose distance was asked
generate ==
    UNION {{[solution |-> t.solution, vehicles |-> st.vehicles,
             asked |-> ffd_grouped_asked \cup t.asked] :
              t \in optimize_solution_routes_run(st.solution)} : st \in {generate_ffd_grouped}}

(***************************************************************************)
(* SimulatedAnnealingOptimizer (src/optimization/optimizer.py)             *)
(***************************************************************************)
route_optimization_interval == 50

\* the condition of the main loop
LoopCondition_mut ==
    /\ temperature.num > Instance.params.termination_temperature * temperature.den
    /\ iteration <= Instance.params.max_iterations

LoopCondition ==
    /\ temperature.num > Instance.params.termination_temperature * temperature.den
    /\ iteration < Instance.params.max_iterations

\* self.temperature *= self.params.cooling_rate
cooled_mut(t) == t

cooled(t) ==
    [num |-> t.num * Instance.params.cooling_num, den |-> t.den * Instance.params.cooling_den]

\* neighbor_cost.defuzzify() < self.best_cost.defuzzify()
improves_mut(neighbor_cost, cost) == LeInf(defuzzify(neighbor_cost), defuzzify(cost))

improves(neighbor_cost, cost) == LtInf(defuzzify(neighbor_cost), defuzzify(cost))

\* random.random() < self._acceptance_probability(cost_diff): the outcomes the
\* draw can have.  A cost_diff <= 0 gives probability 1.0; so does the NaN of
\* inf - inf, through min(1.0, nan); any other gives a probability in
\* [min_acceptance, 1)
accept_outcomes(neighbor_cost, cost) ==
    LET n == defuzzify(neighbor_cost)
        c == defuzzify(cost)
    IN  IF LeInf(n, c) THEN {TRUE} ELSE {TRUE, FALSE}

\* Vehicle(..., current_load_weight=, current_load_cbm=): what a vehicle
\* handed over with no shipment listed may record, as (cbm, kg); each
\* vehicle on its own
RecordedLoads == {<<0, 0>>, <<5, 700>>, <<10, 1000>>, <<20, 2000>>, <<30, 3000>>}

StaleLoads ==
    [VehicleSet -> {[current_load_cbm |-> load[1], current_load_weight |-> load[2],
                     shipments |-> <<>>] : load \in RecordedLoads}]

\* a packing plan gives every vehicle of the fleet a stretch of the
\* shipments: cuts[i] shipments are planned on the first i vehicles (main.py
\* takes the optimizer's shipments from the vehicles, in fleet order)
PackingPlans ==
    {cuts \in [0..Len(Instance.fleet) -> 0..Len(Instance.shipments)] :
        /\ cuts[0] = 0
        /\ cuts[Len(Instance.fleet)] = Len(Instance.shipments)
        /\ \A i \in 1..Len(Instance.fleet) : cuts[i - 1] <= cuts[i]}

Planned(cuts, i) == SubSeq(Instance.shipments, cuts[i - 1] + 1, cuts[i])

\* for shipment_data in veh_data["shipments"]: vehicle.add_shipment(shipment)
RECURSIVE shipments_loaded(_, _, _)
shipments_loaded(vehicles, vehicle, shipments) ==
    IF shipments = <<>> THEN vehicles
    ELSE TheOne({shipments_loaded(added, vehicle, Tail(shipments)) :
                 added \in {add_shipment(vehicles, vehicle, Head(shipments))}})

\* parse_vehicles(vehicles_data, packing_data), up to the i-th vehicle of the
\* fleet: the vehicles start with nothing recorded
RECURSIVE parse_vehicles(_, _)
parse_vehicles(cuts, i) ==
    IF i = 0 THEN reset_state
    ELSE TheOne({shipments_loaded(vehicles, Instance.fleet[i], Planned(cuts, i)) :
                 vehicles \in {parse_vehicles(cuts, i - 1)}})

\* [s for v in vehicles for s in v.shipments], over the first i vehicles
RECURSIVE FlattenFleet(_, _)
FlattenFleet(vehicles, i) ==
    IF i = 0 THEN <<>>
    ELSE FlattenFleet(vehicles, i - 1) \o vehicles[Instance.fleet[i]].shipments

\* the vehicles main.py hands to the optimizer with these shipments: those
\* of the plans whose every shipment went on its vehicle
PlannedLoads ==
    {vehicles \in {parse_vehicles(cuts, Len(Instance.fleet)) : cuts \in PackingPlans} :
        Instance.shipments = FlattenFleet(vehicles, Len(Instance.fleet))}

\* what the vehicles may record when the optimizer is made: nothing or
\* anything without a shipment, the loading of a packing plan, or what an
\* earlier optimize() on this fleet left
InitialLoads == StaleLoads \cup PlannedLoads \cup {g.vehicles : g \in generate}

\* SimulatedAnnealingOptimizer.__init__: the vehicles are left as they come
InitOptimizer ==
    /\ phase = "INITIALIZING"
    /\ vehicle_load \in InitialLoads
    /\ current_solution = None /\ current_cost = None
    /\ best_solution = None /\ best_cost = None /\ best_validation = None
    /\ temperature = [num |-> Instance.params.initial_temperature, den |-> 1]
    /\ iteration = 0 /\ stats = None /\ last = None /\ returned = None

Init ==
    /\ inst \in DOMAIN Instances
    /\ OracleReady(Instance.net)
    /\ UnitIdle
    /\ InitOptimizer

\* optimize(), up to the main loop
Initialize ==
    /\ phase = "INITIALIZING"
    /\ \E g \in generate :
         \E e \in {evaluate(g.solution, g.vehicles)} :
             /\ distance_cache' = Remember(distance_cache, g.asked \cup e.asked)
             /\ vehicle_load' = g.vehicles
             /\ current_solution' = g.solution
             /\ current_cost' = e.cost
             /\ best_solution' = g.solution
             /\ best_cost' = e.cost
             /\ best_validation' = e.validation
    /\ stats' = [iterations |-> 0, accepted |-> 0, rejected |-> 0, improvements |-> 0]
    /\ iteration' = 0
    /\ phase' = "SEARCHING"
    /\ UNCHANGED <<net, nq, lastQuery, unitVars, temperature, last, returned>>

SkipInvalid_mut(neighbor, e) ==
    /\ ~e.validation.is_valid
    /\ stats' = stats
    /\ iteration' = iteration + 1
    /\ temperature' = cooled(temperature)
    /\ last' = [neighbor |-> neighbor, cost |-> e.cost, is_valid |-> FALSE,
                accepted |-> FALSE]
    /\ UNCHANGED <<current_solution, current_cost, best_solution, best_cost,
                   best_validation>>

\* one pass of the main loop, the neighbor being invalid
SkipInvalid(neighbor, e) ==
    /\ ~e.validation.is_valid
    /\ stats' = [stats EXCEPT !.rejected = @ + 1]
    /\ iteration' = iteration + 1
    /\ temperature' = cooled(temperature)
    /\ last' = [neighbor |-> neighbor, cost |-> e.cost, is_valid |-> FALSE,
                accepted |-> FALSE]
    /\ UNCHANGED <<current_solution, current_cost, best_solution, best_cost,
                   best_validation>>

\* one pass of the main loop, the neighbor being valid
AcceptOrReject(neighbor, e) ==
    /\ e.validation.is_valid
    /\ \E accept \in accept_outcomes(e.cost, current_cost) :
         /\ IF accept
            THEN /\ current_solution' = neighbor
                 /\ current_cost' = e.cost
                 /\ IF improves(e.cost, best_cost)
                    THEN /\ best_solution' = neighbor
                         /\ best_cost' = e.cost
                         /\ best_validation' = e.validation
                         /\ stats' = [stats EXCEPT !.accepted = @ + 1,
                                                   !.improvements = @ + 1]
                    ELSE /\ stats' = [stats EXCEPT !.accepted = @ + 1]
                         /\ UNCHANGED <<best_solution, best_cost, best_validation>>
            ELSE /\ stats' = [stats EXCEPT !.rejected = @ + 1]
                 /\ UNCHANGED <<current_solution, current_cost, best_solution, best_cost,
                                best_validation>>
         /\ last' = [neighbor |-> neighbor, cost |-> e.cost, is_valid |-> TRUE,
                     accepted |-> accept]
    /\ temperature' = cooled(temperature)
    /\ iteration' = iteration + 1

Iterate ==
    /\ phase = "SEARCHING"
    /\ LoopCondition
    /\ \E moved \in generate_neighbor_run(current_solution) :
         \E routed \in (IF iteration % route_optimization_interval = 0
                         THEN optimize_solution_routes_run(moved.solution)
                         ELSE NothingAsked({moved.solution})) :
            \E neighbor \in {routed.solution} :
                \E e \in {evaluate(neighbor, vehicle_load)} :
                    /\ SkipInvalid(neighbor, e) \/ AcceptOrReject(neighbor, e)
                    /\ distance_cache' = Remember(distance_cache,
                                                  moved.asked \cup routed.asked \cup e.asked)
    /\ UNCHANGED <<net, nq, lastQuery, unitVars, phase, vehicle_load, returned>>

\* the route _calculate_metrics builds for one vehicle: the depot, then each
\* destination not yet in the route
RECURSIVE metrics_route(_, _)
metrics_route(shipments, route) ==
    IF shipments = <<>> THEN route
    ELSE metrics_route(Tail(shipments),
                       IF Dest(Head(shipments)) \in Range(route) THEN route
                       ELSE Append(route, Dest(Head(shipments))))

\* the pairs _calculate_metrics asks: the legs of every loaded vehicle's route
calculate_metrics_asked(solution) ==
    UNION {route_distance_asked(Net.origin_code,
                                Tail(metrics_route(solution[v], <<Net.origin_code>>))) :
           v \in {w \in VehicleSet : solution[w] # <<>>}}

\* optimize(), from the end of the main loop to the return
Terminate ==
    /\ phase = "SEARCHING"
    /\ ~LoopCondition
    /\ stats' = [stats EXCEPT !.iterations = iteration]
    /\ \E consolidated \in consolidate_destinations(best_solution) :
         \E t \in optimize_solution_routes_run(consolidated) :
            \E routed \in {t.solution} :
                \E e \in {evaluate(routed, vehicle_load)} :
                    /\ best_solution' = routed
                    /\ best_cost' = e.cost
                    /\ best_validation' = e.validation
                    /\ returned' = [best_solution |-> routed, best_cost |-> e.cost,
                                  validation |-> e.validation, statistics |-> stats']
                    /\ distance_cache' = Remember(distance_cache,
                                                  t.asked \cup e.asked
                                                      \cup calculate_metrics_asked(routed))
    /\ phase' = "TERMINATED"
    /\ UNCHANGED <<net, nq, lastQuery, unitVars, vehicle_load, current_solution,
                   current_cost, temperature, iteration, last>>

Next == Initialize \/ Iterate \/ Terminate

Spec == Init /\ [][Next]_vars

\* optimize() runs to its return: no step of it waits on anything
FairSpec == Spec /\ WF_vars(Next)

(***************************************************************************)
(* Properties of the annealing driver                                      *)
(***************************************************************************)
\* the main loop has run at least once: last holds its latest neighbor
Iterated == phase \in {"SEARCHING", "TERMINATED"} /\ iteration > 0

\* how many times a shipment occurs in the lists of a solution
Occurrences(solution, s) ==
    SumSeq([k \in 1..Len(Instance.fleet) |->
              Cardinality({i \in DOMAIN solution[Instance.fleet[k]] :
                             solution[Instance.fleet[k]][i] = s})])

\* the solutions optimize() holds at this point
SolutionsHeld ==
    IF phase \in {"SEARCHING", "TERMINATED"}
    THEN {current_solution, best_solution}
           \cup (IF iteration > 0 THEN {last.neighbor} ELSE {})
           \cup (IF phase = "TERMINATED" THEN {returned.best_solution} ELSE {})
    ELSE {}

\* the shipments the initial constructor finds a vehicle for
Placed == {s \in ShipmentSet : Occurrences(generate_ffd_grouped.solution, s) > 0}

\* C1: after a neighborhood move that the driver accepted, every vehicle's
\* summed shipment volume is at most its max volume and its summed shipment
\* weight is at most its max weight, with no tolerance
C1_AcceptedMoveWithinHardLimits ==
    (Iterated /\ last.accepted) =>
        \A v \in VehicleSet :
            /\ SumCbm(last.neighbor[v]) <= Instance.max_cbm[v]
            /\ SumWeight(last.neighbor[v]) <= Instance.max_weight[v]

\* C2 as stated: at every point of optimize() every shipment of the input
\* list is in exactly one vehicle's list
C2_EveryInputShipmentOnce ==
    \A solution \in SolutionsHeld :
        \A s \in ShipmentSet : Occurrences(solution, s) = 1

\* C2, amended: at every point of optimize() no shipment of the input list
\* is in a list twice, and the shipments that are in a list are exactly
\* those the initial constructor found a vehicle for; a shipment that fits
\* no vehicle is in no list
C2_PlacedShipmentsOnce ==
    \A solution \in SolutionsHeld :
        \A s \in ShipmentSet :
            Occurrences(solution, s) = (IF s \in Placed THEN 1 ELSE 0)

\* a run whose input has a shipment no vehicle can take, after a neighbor
\* that moved shipments between the vehicles has been accepted
C2_Witness ==
    /\ Iterated
    /\ Placed # ShipmentSet
    /\ last.accepted
    /\ \E v \in VehicleSet :
          Range(last.neighbor[v]) # Range(generate_ffd_grouped.solution[v])

\* C3: during SEARCHING the best solution is replaced only by a neighbor that
\* was accepted in that iteration and whose defuzzified cost is strictly
\* lower than the defuzzified best cost; the defuzzified best cost never
\* goes up from one iteration to the next
C3_BestOnlyOnStrictImprovement ==
    [][(phase = "SEARCHING" /\ phase' = "SEARCHING") =>
          /\ (best_solution' # best_solution \/ best_cost' # best_cost) =>
                /\ last'.accepted
                /\ LtInf(defuzzify(last'.cost), defuzzify(best_cost))
                /\ best_solution' = last'.neighbor
                /\ best_cost' = last'.cost
          /\ LeInf(defuzzify(best_cost'), defuzzify(best_cost))]_vars

\* a neighbor was accepted and became the best solution, and an earlier or
\* later accepted neighbor did not
C3_Witness ==
    /\ phase = "SEARCHING"
    /\ stats.improvements = 1
    /\ stats.accepted = 2
    /\ LtInf(defuzzify(best_cost), defuzzify(current_cost))

\* temperature > termination_temperature and iteration < max_iterations
MayIterate ==
    /\ temperature.num > Instance.params.termination_temperature * temperature.den
    /\ iteration < Instance.params.max_iterations

\* C4: optimize() reaches TERMINATED, its phases follow each other in the
\* order INITIALIZING, SEARCHING, TERMINATED; an iteration is made only
\* while temperature > termination_temperature and iteration <
\* max_iterations, so there are never more than max_iterations of them; and
\* at the first iteration boundary where that condition fails the loop is
\* left
C4_ReachesTerminated ==
    /\ <>(phase = "TERMINATED")
    /\ [][phase' # phase =>
             <<phase, phase'>> \in {<<"INITIALIZING", "SEARCHING">>,
                                    <<"SEARCHING", "TERMINATED">>}]_vars
    /\ [][iteration' # iteration =>
             phase = "SEARCHING" /\ MayIterate /\ iteration' = iteration + 1]_vars
    /\ [](iteration <= Instance.params.max_iterations)
    /\ [][(phase = "SEARCHING" /\ ~MayIterate) =>
             phase' = "TERMINATED" /\ iteration' = iteration]_vars
    /\ [][(phase = "SEARCHING" /\ MayIterate) => iteration' = iteration + 1]_vars

\* a run that the temperature stopped before max_iterations was reached
C4_Witness ==
    /\ phase = "TERMINATED"
    /\ iteration = 1
    /\ iteration < Instance.params.max_iterations
    /\ stats.iterations = 1

\* C5: an iteration whose neighbor the validator marks invalid leaves the
\* current solution and cost and the best solution, cost and validation
\* as they were, multiplies the temperature by cooling_rate and adds one
\* to the iteration counter
C5_InvalidNeighborSkipped ==
    [][(phase = "SEARCHING" /\ phase' = "SEARCHING"
          /\ ~validate_solution(last'.neighbor).is_valid) =>
          /\ UNCHANGED <<current_solution, current_cost, best_solution, best_cost,
                         best_validation>>
          /\ temperature'.num * temperature.den * Instance.params.cooling_den
                = temperature.num * Instance.params.cooling_num * temperature'.den
          /\ iteration' = iteration + 1
          /\ last'.neighbor # current_solution'
          /\ last'.neighbor # best_solution']_vars

\* the proximity swap put 2500 kg on a 2000 kg truck and the iteration was
\* counted as a rejection
C5_Witness ==
    /\ Iterated
    /\ ~last.is_valid
    /\ <<"V1", "weight">> \in Range(validate_solution(last.neighbor).violations)
    /\ stats.rejected = 1
    /\ current_solution = generate_ffd_grouped.solution

(***************************************************************************)
(* The components called on their own, on any assignment of the shipments  *)
(***************************************************************************)
UnitInsts == {1, 3, 5}

\* every assignment of every shipment to one vehicle, in any order
AllSolutions ==
    UNION {Product([v \in VehicleSet |-> Orderings({s \in ShipmentSet : assign[s] = v})]) :
             assign \in [ShipmentSet -> VehicleSet]}

Operators == {"generate_neighbor", "swap_between_vehicles", "transfer_shipment",
              "relocate_within_vehicle", "reverse_subroute", "consolidate_destinations"}

\* what a call of an operator leaves behind: the value returned, whether the
\* returned object is the caller's own dictionary, and the caller's
\* dictionary after the call.  Only generate_neighbor copies its argument;
\* the other operators work on the dictionary they are given and return it.
in_place(results) ==
    {[value |-> r.solution, is_argument |-> TRUE, argument_after |-> r.solution,
      asked |-> r.asked] : r \in results}

on_copy(solution, results) ==
    {[value |-> r.solution, is_argument |-> FALSE, argument_after |-> solution,
      asked |-> r.asked] : r \in results}

\* a call of an operator: what it leaves behind and the pairs whose
\* distance it asked
call_operator(op, solution) ==
    CASE op = "generate_neighbor" -> on_copy(solution, generate_neighbor_run(solution))
      [] op = "swap_between_vehicles" -> in_place(swap_between_vehicles_run(solution))
      [] op = "transfer_shipment" -> in_place(NothingAsked(transfer_shipment(solution)))
      [] op = "relocate_within_vehicle" ->
            in_place(NothingAsked(relocate_within_vehicle(solution)))
      [] op = "reverse_subroute" -> in_place(NothingAsked(reverse_subroute(solution)))
      [] op = "consolidate_destinations" ->
            in_place(NothingAsked(consolidate_destinations(solution)))

InitUnit ==
    /\ inst \in UnitInsts
    /\ OracleReady(Instance.net)
    /\ uin \in {[solution |-> s] : s \in AllSolutions}
    /\ uout = <<>>
    /\ ustep = "none"
    /\ NoOptimizer

CallOperator ==
    /\ ustep = "none"
    /\ \E op \in Operators :
         /\ \E r \in call_operator(op, uin.solution) :
              /\ uout' = [value |-> r.value, is_argument |-> r.is_argument,
                          argument_after |-> r.argument_after]
              /\ distance_cache' = Remember(distance_cache, r.asked)
         /\ ustep' = op
    /\ UNCHANGED <<net, nq, lastQuery, inst, uin, optVars>>

CallValidate ==
    /\ ustep = "none"
    /\ uout' = validate_solution(uin.solution)
    /\ ustep' = "validate_solution"
    /\ UNCHANGED <<netVars, inst, uin, optVars>>

CallOptimizeRoutes ==
    /\ ustep = "none"
    /\ \E t \in optimize_solution_routes_run(uin.solution) :
         /\ uout' = t.solution
         /\ distance_cache' = Remember(distance_cache, t.asked)
    /\ ustep' = "optimize_solution_routes"
    /\ UNCHANGED <<net, nq, lastQuery, inst, uin, optVars>>

CallOptimizeRoutesAgain ==
    /\ ustep = "optimize_solution_routes"
    /\ \E t \in optimize_solution_routes_run(uout) :
         /\ uout' = [first |-> uout, second |-> t.solution]
         /\ distance_cache' = Remember(distance_cache, t.asked)
    /\ ustep' = "optimize_solution_routes twice"
    /\ UNCHANGED <<net, nq, lastQuery, inst, uin, optVars>>

NextUnit == CallOperator \/ CallValidate \/ CallOptimizeRoutes \/ CallOptimizeRoutesAgain

SpecUnit == InitUnit /\ [][NextUnit]_vars

\* C6: an operator leaves the caller's solution as it was and returns a
\* separate copy
C6_OperatorsWorkOnACopy ==
    ustep \in Operators =>
        /\ uout.argument_after = uin.solution
        /\ ~uout.is_argument

\* C8: optimizing the routes of an already optimized solution changes
\* no vehicle's shipment order
C8_RouteOptimizationIdempotent ==
    ustep = "optimize_solution_routes twice" => uout.second = uout.first

\* the limits a solution breaches, as the (vehicle, limit) pairs; the
\* product limit * 1.001 is the floating-point one the program compares with
BreachedLimits(solution) ==
    {<<v, "volume">> : v \in {w \in VehicleSet :
                                ~WithinTolerance(SumCbm(solution[w]), Instance.max_cbm[w])}}
    \cup
    {<<v, "weight">> : v \in {w \in VehicleSet :
                                ~WithinTolerance(SumWeight(solution[w]),
                                                 Instance.max_weight[w])}}

\* C10: the validation is invalid exactly when some vehicle's volume or
\* weight exceeds 1.001 times its limit, it lists one violation for each
\* breached limit of each vehicle and nothing else, and is_valid says
\* whether the list is empty
C10_ValidationCountsBreaches ==
    ustep = "validate_solution" =>
        /\ uout.is_valid <=> BreachedLimits(uin.solution) = {}
        /\ Range(uout.violations) = BreachedLimits(uin.solution)
        /\ Len(uout.violations) = Cardinality(BreachedLimits(uin.solution))
        /\ uout.is_valid <=> uout.violations = <<>>

\* a validation that found both limits of V1 breached and V2 in order
C10_Witness ==
    /\ ustep = "validate_solution"
    /\ inst = 1
    /\ uin.solution["V2"] = <<>>
    /\ uout.violations = << <<"V1", "volume">>, <<"V1", "weight">> >>
    /\ ~uout.is_valid

(***************************************************************************)
(* Solution validator: comparison with historical costs                    *)
(* (validators.py, _compare_costs).  A dictionary is a function; the       *)
(* validator is called on its own with a solution, the per-vehicle fuzzy   *)
(* costs and the historical costs it was constructed with.                 *)
(***************************************************************************)
\* sum(f[k] for k in S)
RECURSIVE SumOver(_, _)
SumOver(f, S) ==
    IF S = {} THEN 0
    ELSE LET k == CHOOSE x \in S : TRUE IN f[k] + SumOver(f, S \ {k})

\* ValidationResult()
ValidationResult ==
    [is_valid |-> TRUE, violations |-> <<>>, warnings |-> <<>>,
     cost_comparisons |-> <<>>, improvements |-> <<>>]

\* The numbers of a cost comparison.  A historical cost is a whole number of
\* units; a current cost is a defuzzified value, in thirds of the unit, or
\* Inf; a difference or a percentage is the fraction num / den, and
\* float("-inf") is the fraction -1 / 0.
NegInfinity == [num |-> -1, den |-> 0]

\* historical_cost - current_cost
minus(historical, current) ==
    IF current = Inf THEN NegInfinity
    ELSE [num |-> 3 * historical - current, den |-> 3]

\* (difference / historical_cost) * 100, 0 when historical_cost <= 0
improvement_pct(difference, historical_cost) ==
    IF historical_cost > 0
    THEN IF difference = NegInfinity THEN NegInfinity
         ELSE [num |-> 100 * difference.num, den |-> difference.den * historical_cost]
    ELSE [num |-> 0, den |-> 1]

\* solution.get(vehicle): the vehicle is a key of the solution and carries something
carries(solution, vehicle) ==
    vehicle \in DOMAIN solution /\ solution[vehicle] # <<>>

\* the total of the historical costs, as _compare_costs takes it
total_historical(solution, historical_costs) ==
    SumOver(historical_costs, DOMAIN historical_costs)

\* sum() of floats, one of which may be inf
RECURSIVE SumOverInf(_, _)
SumOverInf(f, S) ==
    IF S = {} THEN 0
    ELSE LET k == CHOOSE x \in S : TRUE IN AddInf(f[k], SumOverInf(f, S \ {k}))

\* the total of the current costs: vehicles of solution_costs that carry something
total_current(solution, solution_costs) ==
    SumOverInf([v \in DOMAIN solution_costs |-> defuzzify(solution_costs[v])],
               {v \in DOMAIN solution_costs : carries(solution, v)})

\* the improvement note is appended when the total difference is positive
notes_improvement(total_difference) ==
    total_difference # NegInfinity /\ total_difference.num > 0

\* SolutionValidator._compare_costs
compare_costs(solution, solution_costs, historical_costs, result) ==
    LET listed == {v \in DOMAIN solution :
                     solution[v] # <<>> /\ v \in DOMAIN solution_costs}
        historical_of(v) == IF v \in DOMAIN historical_costs THEN historical_costs[v] ELSE 0
        entry(h, c, note) ==
            [historical_cost |-> h, current_cost |-> c, difference |-> minus(h, c),
             improvement_percentage |-> improvement_pct(minus(h, c), h), note |-> note]
        th == total_historical(solution, historical_costs)
        tc == total_current(solution, solution_costs)
        comparisons ==
            [k \in listed \cup {"TOTAL"} |->
                IF k = "TOTAL" THEN entry(th, tc, "TRUE comparison")
                ELSE entry(historical_of(k), defuzzify(solution_costs[k]), "compare totals")]
    IN  [result EXCEPT
           !.cost_comparisons = comparisons,
           !.improvements =
               IF notes_improvement(minus(th, tc))
               THEN Append(@, <<"TOTAL SOLUTION", improvement_pct(minus(th, tc), th),
                                minus(th, tc)>>)
               ELSE @]

\* SolutionValidator(historical_costs).validate_solution(solution, solution_costs)
validate_solution_costs(solution, solution_costs, historical_costs) ==
    LET result == validate_capacities(solution, 1, ValidationResult)
    IN  IF DOMAIN solution_costs # {} /\ DOMAIN historical_costs # {}
        THEN compare_costs(solution, solution_costs, historical_costs, result)
        ELSE result

\* the dictionaries tried: keys from a set of vehicle ids, values from a set
Dicts(keys, values) == UNION {[K -> values] : K \in SUBSET keys}

InitCompare ==
    /\ inst = 3
    /\ OracleReady(Instance.net)
    /\ ustep = "none"
    /\ uout = <<>>
    /\ \E solution \in AllSolutions,
          solution_costs \in Dicts(VehicleSet, {TFN(77, 80, 83), TFN(55, 60, 65),
                                                TFN(45, 50, 55), TFN(1, 1, 2),
                                                FuzzyInfinity}),
          historical_costs \in Dicts(VehicleSet, {100, 50}) :
          uin = [solution |-> solution, solution_costs |-> solution_costs,
                 historical_costs |-> historical_costs]
    /\ NoOptimizer

CallValidateCosts ==
    /\ ustep = "none"
    /\ uout' = validate_solution_costs(uin.solution, uin.solution_costs,
                                       uin.historical_costs)
    /\ ustep' = "validate_solution_costs"
    /\ UNCHANGED <<netVars, inst, uin, optVars>>

\* ValidationResult.add_warning(message)
add_warning(result, message) ==
    [result EXCEPT !.warnings = Append(result.warnings, message)]

MaxWarnings == 1

\* add_warning(message) called on the result validate_solution returned
CallAddWarning ==
    /\ ustep \in {"validate_solution_costs", "add_warning"}
    /\ Len(uout.warnings) < MaxWarnings
    /\ \E message \in {"w"} : uout' = add_warning(uout, message)
    /\ ustep' = "add_warning"
    /\ UNCHANGED <<netVars, inst, uin, optVars>>

NextCompare == CallValidateCosts \/ CallAddWarning

SpecCompare == InitCompare /\ [][NextCompare]_vars

\* C11: with historical costs supplied, the result has a TOTAL comparison
\* whose historical and current costs are the sums, over the vehicles that
\* carry at least one shipment, of the historical costs and of the
\* defuzzified current costs, whose difference is historical minus current,
\* and an improvement note is recorded exactly when that difference is
\* positive
C11_TotalOverLoadedVehicles ==
    (ustep = "validate_solution_costs" /\ DOMAIN uin.historical_costs # {}) =>
        LET loaded == {v \in VehicleSet : uin.solution[v] # <<>>}
            h == SumOver(uin.historical_costs, loaded \cap DOMAIN uin.historical_costs)
            c == SumOverInf([v \in DOMAIN uin.solution_costs |->
                                 defuzzify(uin.solution_costs[v])],
                            loaded \cap DOMAIN uin.solution_costs)
        IN  /\ "TOTAL" \in DOMAIN uout.cost_comparisons
            /\ uout.cost_comparisons["TOTAL"].historical_cost = h
            /\ uout.cost_comparisons["TOTAL"].current_cost = c
            /\ uout.cost_comparisons["TOTAL"].difference = minus(h, c)
            /\ (uout.improvements # <<>>) <=> (c # Inf /\ 3 * h - c > 0)

(***************************************************************************)
(* Fuzzy arithmetic on its own (fuzzy_number.py): __post_init__, __add__,  *)
(* __sub__ on finite triangular numbers.                                   *)
(***************************************************************************)
MaxFuzzy == 3

ValueError == [error |-> "ValueError"]

\* TriangularFuzzyNumber(left, peak, right): __post_init__ raises only when
\* left > right; a peak outside [left, right] is let through
Construct(l, p, r) ==
    IF ~(l <= p /\ p <= r) /\ l > r THEN ValueError ELSE TFN(l, p, r)

\* the triangular numbers that can be constructed from values 0..MaxFuzzy
FuzzyNumbers ==
    {Construct(l, p, r) : l \in 0..MaxFuzzy, p \in 0..MaxFuzzy, r \in 0..MaxFuzzy}
        \ {ValueError}

FuzzySub_mut(a, b) == Construct(a.left - b.left, a.peak - b.peak, a.right - b.right)

\* TriangularFuzzyNumber.__sub__
FuzzySub(a, b) == Construct(a.left - b.right, a.peak - b.peak, a.right - b.left)

InitFuzzy ==
    /\ inst = 0
    /\ OracleReady(1)
    /\ ustep = "none"
    /\ uout = <<>>
    /\ uin \in {[a |-> a, b |-> b] : a \in FuzzyNumbers, b \in FuzzyNumbers}
    /\ NoOptimizer

\* (a + b) - b
CallSubtractAdd ==
    /\ ustep = "none"
    /\ uout' = FuzzySub(FuzzyAdd(uin.a, uin.b), uin.b)
    /\ ustep' = "subtract_add"
    /\ UNCHANGED <<netVars, inst, uin, optVars>>

NextFuzzy == CallSubtractAdd

SpecFuzzy == InitFuzzy /\ [][NextFuzzy]_vars

route_of(shipments) ==
    <<Net.origin_code>> \o Distinct([i \in DOMAIN shipments |-> Dest(shipments[i])])

\* the route has a leg of infinite distance
InfiniteLeg(route) ==
    \E i \in 1..(Len(route) - 1) : Dist(route[i], route[i + 1]) = Inf

\* some loaded vehicle of the solution has such a route
HasInfiniteLeg(solution) ==
    \E v \in VehicleSet : solution[v] # <<>> /\ InfiniteLeg(route_of(solution[v]))

\* C13: a route of fewer than 2 stops, or with a leg of infinite distance,
\* is priced as the infinite sentinel; the sentinel survives the additions
\* of _evaluate (the cost of a solution with such a route is infinite in
\* all three components); and a run whose input has a shipment that cannot
\* be reached from the depot still reaches TERMINATED and returns a result
C13_InfiniteCostPropagates ==
    /\ [](calculate_route_cost(<<>>, "V1", <<>>) = FuzzyInfinity
          /\ calculate_route_cost(<<Net.origin_code>>, "V1", <<>>) = FuzzyInfinity)
    /\ [](phase \in {"SEARCHING", "TERMINATED"} =>
            /\ \A v \in VehicleSet :
                 (current_solution[v] # <<>> /\ InfiniteLeg(route_of(current_solution[v])))
                    => calculate_route_cost(route_of(current_solution[v]), v,
                                            current_solution[v]) = FuzzyInfinity
            /\ HasInfiniteLeg(current_solution) => current_cost = FuzzyInfinity
            /\ HasInfiniteLeg(best_solution) => best_cost = FuzzyInfinity
            /\ (last # None /\ HasInfiniteLeg(last.neighbor)) => last.cost = FuzzyInfinity)
    /\ (phase = "INITIALIZING" /\ \E s \in ShipmentSet : Dist(Net.origin_code, Dest(s)) = Inf)
          ~> (phase = "TERMINATED" /\ returned # None)

\* the run with the Yangon shipment: two moves were accepted although every
\* cost was infinite, and the returned best cost is the sentinel
C13_Witness ==
    /\ inst = 4
    /\ phase = "TERMINATED"
    /\ stats.accepted = 2
    /\ HasInfiniteLeg(returned.best_solution)
    /\ returned.best_cost = FuzzyInfinity

(***************************************************************************)
(* Two runs of optimize() on the same input.  The first run is the driver  *)
(* above; the second is taken for inputs with max_iterations = 0, where    *)
(* the loop body never runs and optimize() draws nothing from the random   *)
(* source: what is left open is only the iteration order of the sets built *)
(* in optimize_solution_routes and consolidate_destinations.               *)
(***************************************************************************)
\* optimize() when the main loop is not entered: generate, _evaluate,
\* consolidate_destinations, optimize_solution_routes, _evaluate, return
optimize_without_iterations ==
    UNION {UNION {{[best_solution |-> t.solution,
                    best_cost |-> evaluate(t.solution, g.vehicles).cost,
                    validation |-> evaluate(t.solution, g.vehicles).validation,
                    statistics |-> [iterations |-> 0, accepted |-> 0, rejected |-> 0,
                                    improvements |-> 0],
                    asked |-> g.asked \cup evaluate_asked(g.solution) \cup t.asked
                                \cup evaluate_asked(t.solution)
                                \cup calculate_metrics_asked(t.solution)] :
                   t \in optimize_solution_routes_run(consolidated)} :
                  consolidated \in consolidate_destinations(g.solution)} :
           g \in generate}

RunAgain ==
    /\ phase = "TERMINATED"
    /\ ustep = "none"
    /\ Instance.params.max_iterations = 0
    /\ \E r \in optimize_without_iterations :
         /\ uout' = [best_solution |-> r.best_solution, best_cost |-> r.best_cost,
                     validation |-> r.validation, statistics |-> r.statistics]
         /\ distance_cache' = Remember(distance_cache, r.asked)
    /\ ustep' = "optimize"
    /\ UNCHANGED <<net, nq, lastQuery, inst, uin, optVars>>

NextTwoRuns == Next \/ RunAgain

SpecTwoRuns == Init /\ [][NextTwoRuns]_vars

\* C14: two runs of optimize() on equal inputs with the random source in
\* the same state return the same best solution, best cost and statistics
\* (here: runs that draw nothing from the random source)
C14_RunsAgree ==
    (phase = "TERMINATED" /\ ustep = "optimize") =>
        /\ uout.best_solution = returned.best_solution
        /\ uout.best_cost = returned.best_cost
        /\ uout.statistics = returned.statistics

(***************************************************************************)
(* InitialSolutionGenerator.generate with each strategy                    *)
(* (src/optimization/initial_solution.py)                                  *)
(***************************************************************************)
Strategies == {"ffd_grouped", "ffd", "random"}

\* the first vehicle of `order` whose recorded load admits the shipment
RECURSIVE first_in(_, _, _, _)
first_in(vehicles, shipment, order, k) ==
    IF k > Len(order) THEN ""
    ELSE IF can_add_shipment(vehicles, order[k], shipment) THEN order[k]
    ELSE first_in(vehicles, shipment, order, k + 1)

\* random.sample(population, len(population)): any order of the whole list
random_sample(population) ==
    {p \in DistinctSeqs(Range(population), Len(population)) : Len(p) = Len(population)}

\* the loop of _generate_random over the shuffled shipments: each one goes on
\* the first vehicle, in a fresh random order, whose recorded load admits it
RECURSIVE random_assign(_, _)
random_assign(st, shuffled) ==
    IF shuffled = <<>> THEN {st}
    ELSE LET shipment == Head(shuffled)
             placed(vehicle) ==
                 IF vehicle = ""
                 THEN [solution |-> st.solution,
                       vehicles |-> st.vehicles,
                       warnings |-> Append(st.warnings, [shipment |-> shipment,
                                                         vehicles |-> st.vehicles])]
                 ELSE [solution |-> [st.solution EXCEPT ![vehicle] = Append(@, shipment)],
                       vehicles |-> add_shipment(st.vehicles, vehicle, shipment),
                       warnings |-> st.warnings]
         IN  UNION {random_assign(next, Tail(shuffled)) :
                    next \in {placed(first_in(st.vehicles, shipment, order, 1)) :
                                order \in random_sample(Instance.fleet)}}

\* _generate_random()
generate_random ==
    UNION {random_assign([solution |-> [v \in VehicleSet |-> <<>>],
                          vehicles |-> reset_state, warnings |-> <<>>], shuffled) :
           shuffled \in random_sample(Instance.shipments)}

\* _generate_ffd(): the shipments by decreasing volume, each on the first
\* vehicle of the fleet that admits it
generate_ffd ==
    LET cbm == [s \in ShipmentSet |-> Instance.total_cbm[s]]
    IN  assign_individually([solution |-> [v \in VehicleSet |-> <<>>],
                             vehicles |-> reset_state, warnings |-> <<>>],
                            SortedByDesc(Instance.shipments, cbm))

\* generate(strategy): reset, the strategy's assignment,
\* optimize_solution_routes; with the pairs whose distance was asked
generate_strategy(strategy) ==
    LET assigned == CASE strategy = "random" -> generate_random
                      [] strategy = "ffd" -> {generate_ffd}
                      [] strategy = "ffd_grouped" -> {generate_ffd_grouped}
        asked == IF strategy = "ffd_grouped" THEN ffd_grouped_asked ELSE {}
    IN  UNION {{[solution |-> t.solution, vehicles |-> st.vehicles,
                 warnings |-> st.warnings, asked |-> asked \cup t.asked] :
                  t \in optimize_solution_routes_run(st.solution)} : st \in assigned}

InitGenerate ==
    /\ inst \in DOMAIN Instances
    /\ OracleReady(Instance.net)
    /\ vehicle_load \in StaleLoads \cup PlannedLoads
    /\ uin \in {[strategy |-> s, vehicles |-> vehicle_load] : s \in Strategies}
    /\ uout = <<>>
    /\ ustep = "none"
    /\ phase = "NONE"
    /\ current_solution = None /\ current_cost = None
    /\ best_solution = None /\ best_cost = None /\ best_validation = None
    /\ temperature = None /\ iteration = 0 /\ stats = None /\ last = None
    /\ returned = None

CallGenerate ==
    /\ ustep = "none"
    /\ \E g \in generate_strategy(uin.strategy) :
         /\ uout' = [solution |-> g.solution, vehicles |-> g.vehicles,
                     warnings |-> g.warnings]
         /\ vehicle_load' = g.vehicles
         /\ distance_cache' = Remember(distance_cache, g.asked)
    /\ ustep' = "generate"
    /\ UNCHANGED <<net, nq, lastQuery, inst, uin, phase, current_solution, current_cost,
                   best_solution, best_cost, best_validation, temperature, iteration,
                   stats, last, returned>>

\* Vehicle.remove_shipment(shipment) called on a vehicle as generate() left
\* it, or as an earlier removal did
CallRemoveShipment ==
    /\ ustep \in {"generate", "remove_shipment"}
    /\ \E vehicle \in VehicleSet, shipment \in ShipmentSet :
         LET r == remove_shipment(vehicle_load, vehicle, shipment)
         IN  /\ uin' = [vehicle |-> vehicle, shipment |-> shipment]
             /\ uout' = r.value
             /\ vehicle_load' = r.vehicles
    /\ ustep' = "remove_shipment"
    /\ UNCHANGED <<netVars, inst, phase, current_solution, current_cost,
                   best_solution, best_cost, best_validation, temperature, iteration,
                   stats, last, returned>>

NextGenerate == CallGenerate \/ CallRemoveShipment

SpecGenerate == InitGenerate /\ [][NextGenerate]_vars

\* the shipments generate() left out of the solution it returned
LeftOut == {s \in ShipmentSet : Occurrences(uout.solution, s) = 0}

\* a warning for the shipment, logged when no vehicle's recorded load admitted it
RefusedByAll(s) ==
    \E i \in DOMAIN uout.warnings :
       /\ uout.warnings[i].shipment = s
       /\ \A v \in VehicleSet : ~can_add_shipment(uout.warnings[i].vehicles, v, s)

\* C15: whatever the vehicles recorded before, generate() with any strategy
\* returns a solution in which each shipment is on at most one vehicle, each
\* vehicle's recorded load is the load of its shipments (the state was reset)
\* and is within 1.001 times its limits in volume and weight, and a shipment
\* is left out only when no vehicle admitted it at the moment it was tried
C15_ConstructionFeasible ==
    ustep = "generate" =>
        /\ \A s \in ShipmentSet : Occurrences(uout.solution, s) <= 1
        /\ \A v \in VehicleSet :
             /\ uout.vehicles[v].current_load_cbm = SumCbm(uout.solution[v])
             /\ uout.vehicles[v].current_load_weight = SumWeight(uout.solution[v])
             /\ WithinTolerance(SumCbm(uout.solution[v]), Instance.max_cbm[v])
             /\ WithinTolerance(SumWeight(uout.solution[v]), Instance.max_weight[v])
        /\ \A s \in LeftOut : RefusedByAll(s)

\* a random construction after stale loads that places three shipments, the
\* heavy one alone on its vehicle, and leaves out the one no vehicle admits
C15_Witness ==
    /\ ustep = "generate"
    /\ inst = 2
    /\ uin.strategy = "random"
    /\ uin.vehicles["V1"].current_load_cbm = 30
    /\ vehicle_load = uout.vehicles
    /\ LeftOut = {"s4"}
    /\ uout.solution["V1"] = <<"s2">>
    /\ Len(uout.solution["V2"]) = 2

(***************************************************************************)
(* swap_between_vehicles: how much one call exchanges                      *)
(***************************************************************************)
\* the solutions that differ from `solution` by the exchange of one pair of
\* shipments between two vehicles
OneExchange(solution) ==
    {exchange(solution, v1, v2, s1, s2) :
       <<v1, v2, s1, s2>> \in {q \in VehicleSet \X VehicleSet \X ShipmentSet \X ShipmentSet :
                                 /\ q[1] # q[2]
                                 /\ q[3] \in Range(solution[q[1]])
                                 /\ q[4] \in Range(solution[q[2]])}}

\* C16: swap_between_vehicles on vehicles that all carry shipments stops at
\* the first strategy that succeeds: what it returns is the solution it was
\* given, unchanged or with one pair of shipments exchanged
C16_AtMostOnePairExchanged ==
    (ustep = "swap_between_vehicles" /\ \A v \in VehicleSet : uin.solution[v] # <<>>)
        => uout.value \in {uin.solution} \cup OneExchange(uin.solution)

(***************************************************************************)
(* transfer_shipment: all of the chosen shipments move, or none            *)
(***************************************************************************)
\* what the target carries after the call beyond what it carried before
Arrived(before, after, target) ==
    SubSeq(after[target], Len(before[target]) + 1, Len(after[target]))

\* `after` is `before` with 1 to 3 distinct shipments of `source` taken off
\* it and put at the end of `target`, nothing else touched
MovedAll(before, after, source, target) ==
    /\ source # target
    /\ before[source] # <<>>
    /\ Len(after[target]) - Len(before[target]) \in 1..3
    /\ SubSeq(after[target], 1, Len(before[target])) = before[target]
    /\ Range(Arrived(before, after, target)) \subseteq Range(before[source])
    /\ Cardinality(Range(Arrived(before, after, target)))
          = Len(after[target]) - Len(before[target])
    /\ after[source] = SelectSeq(before[source],
                                 LAMBDA s : s \notin Range(Arrived(before, after, target)))
    /\ \A v \in VehicleSet \ {source, target} : after[v] = before[v]

\* C17: transfer_shipment either leaves the whole solution unchanged, or
\* moves 1 to 3 distinct shipments of one non-empty source vehicle to another
\* vehicle, whose summed volume and weight are then within its hard limits,
\* the source having lost exactly those shipments
C17_TransferAllOrNothing ==
    ustep = "transfer_shipment" =>
        \/ uout.value = uin.solution
        \/ \E source, target \in VehicleSet :
              /\ MovedAll(uin.solution, uout.value, source, target)
              /\ SumCbm(uout.value[target]) <= Instance.max_cbm[target]
              /\ SumWeight(uout.value[target]) <= Instance.max_weight[target]

\* both shipments of V1 have been moved, in sampled order, to V2, which had one
C17_Witness ==
    /\ ustep = "transfer_shipment"
    /\ inst = 3
    /\ uin.solution = [V1 |-> <<"s1", "s2">>, V2 |-> <<"s3">>]
    /\ uout.value = [V1 |-> <<>>, V2 |-> <<"s3", "s2", "s1">>]

(***************************************************************************)
(* consolidate_destinations: the capacity of the vehicle that receives     *)
(***************************************************************************)
\* the vehicles that carry, after the call, a shipment they did not carry
Receivers(before, after) ==
    {v \in VehicleSet : Range(after[v]) \ Range(before[v]) # {}}

\* C18: consolidate_destinations moves a shipment onto a vehicle only when
\* the move keeps that vehicle within its hard capacity in both volume and
\* weight: a vehicle that received a shipment carries no more than its limits
C18_ConsolidationKeepsCapacity ==
    ustep = "consolidate_destinations" =>
        \A v \in Receivers(uin.solution, uout.value) :
           /\ SumCbm(uout.value[v]) <= Instance.max_cbm[v]
           /\ SumWeight(uout.value[v]) <= Instance.max_weight[v]

(***************************************************************************)
(* The utilization penalty in _evaluate                                    *)
(***************************************************************************)
\* the load of the shipments each vehicle carries in the solution
solution_load(solution) ==
    [v \in VehicleSet |-> [current_load_cbm |-> SumCbm(solution[v]),
                           current_load_weight |-> SumWeight(solution[v])]]

\* C19: the neighbor the main loop evaluated last got the utilization
\* penalty on a loaded vehicle exactly when the load that vehicle carries in
\* that neighbor is below 60% of its volume or 30% of its weight capacity
C19_PenaltyFromCarriedLoad ==
    Iterated =>
        \A v \in VehicleSet :
           last.neighbor[v] # <<>> =>
              (under_utilized(vehicle_load, v)
                  <=> under_utilized(solution_load(last.neighbor), v))

(***************************************************************************)
(* CostCalculator.get_customs_fee called on its own                        *)
(***************************************************************************)
InitFee ==
    /\ inst = 0
    /\ OracleReady(1)
    /\ ustep = "none"
    /\ uout = <<>>
    /\ uin \in {[from_country |-> x, to_country |-> y] :
                  x \in Range(CountryOrder), y \in Range(CountryOrder)}
    /\ NoOptimizer

CallCustomsFee ==
    /\ ustep = "none"
    /\ uout' = get_customs_fee(uin.from_country, uin.to_country)
    /\ ustep' = "get_customs_fee"
    /\ UNCHANGED <<netVars, inst, uin, optVars>>

NextFee == CallCustomsFee

SpecFee == InitFee /\ [][NextFee]_vars

\* the entries of the fee table for the two countries, in either order
Listed(x, y) == {key \in DOMAIN customs_fees : key = <<x, y>> \/ key = <<y, x>>}

\* C20: get_customs_fee(x, y) equals get_customs_fee(y, x); for a pair the
\* fee table lists, in whichever order, it is the listed fee; for a pair the
\* table does not list it is the default 160
C20_FeeSymmetricAndTableFaithful ==
    ustep = "get_customs_fee" =>
        /\ uout = get_customs_fee(uin.to_country, uin.from_country)
        /\ \A key \in Listed(uin.from_country, uin.to_country) : uout = customs_fees[key]
        /\ Listed(uin.from_country, uin.to_country) = {} => uout = default_customs_fee

(***************************************************************************)
(* evaluate_route_efficiency called on its own, on routes that may repeat  *)
(* a destination                                                           *)
(***************************************************************************)
MaxStops == 4

EfficiencyNets == {1, 2}

InitEfficiency ==
    /\ \E n \in EfficiencyNets : OracleReady(n)
    /\ uin \in {[route |-> r] :
                  r \in UNION {[1..k -> NodeSet(Net)] : k \in 0..MaxStops}}
    /\ inst = 0
    /\ uout = <<>>
    /\ ustep = "none"
    /\ NoOptimizer

CallEfficiency ==
    /\ ustep = "none"
    /\ uout' = evaluate_route_efficiency(uin.route)
    /\ distance_cache' = Remember(distance_cache, route_efficiency_asked(uin.route))
    /\ ustep' = "evaluate_route_efficiency"
    /\ UNCHANGED <<net, nq, lastQuery, inst, uin, optVars>>

NextEfficiency == CallEfficiency

SpecEfficiency == InitEfficiency /\ [][NextEfficiency]_vars

\* [origin] + route for the route given
FullRoute == <<DefaultOrigin>> \o uin.route

\* the legs of [origin] + route
Legs == [i \in 1..(Len(FullRoute) - 1) |-> Dist(FullRoute[i], FullRoute[i + 1])]

\* the amount due for the triple at 0-based position i of [origin] + route
Detour(i) ==
    LET through == Dist(FullRoute[i + 1], FullRoute[i + 2])
                     + Dist(FullRoute[i + 2], FullRoute[i + 3])
        direct == Dist(FullRoute[i + 1], FullRoute[i + 3])
    IN  IF 10 * through > 13 * direct THEN 2 * (through - direct) ELSE 0

\* the 0-based positions 0, 2, 4, ... that start a triple
EvenTriples == {i \in 0..(Len(FullRoute) - 3) : i % 2 = 0}

\* C21: evaluate_route_efficiency returns 0 for a route of at most one stop,
\* infinity when a leg of [origin] + route is infinite, and otherwise 2000
\* per repeated destination plus the legs of [origin] + route plus the detour
\* amounts of the triples at the even positions only
C21_EfficiencyPenalty ==
    ustep = "evaluate_route_efficiency" =>
        IF Len(uin.route) <= 1 THEN uout = 0
        ELSE IF \E i \in DOMAIN Legs : Legs[i] = Inf THEN uout = Inf
        ELSE uout = RepeatPenalty * (Len(uin.route) - Cardinality(Range(uin.route)))
                      + SumSeq(Legs)
                      + SumOver([i \in EvenTriples |-> Detour(i)], EvenTriples)

\* Hanoi, Vientiane and back to the depot: the triple at position 1 (Hanoi,
\* Vientiane, depot) is a detour of 800 and is not charged; the legs alone
C21_Witness ==
    /\ ustep = "evaluate_route_efficiency"
    /\ net = 1
    /\ uin.route = <<"HAN", "VTE", "NNG">>
    /\ uout = 1400

(***************************************************************************)
(* The ffd_grouped construction, stated by what it chooses                 *)
(***************************************************************************)
FleetIndex(v) == CHOOSE k \in 1..Len(Instance.fleet) : Instance.fleet[k] = v

InputIndex(s) == CHOOSE k \in 1..Len(Instance.shipments) : Instance.shipments[k] = s

Destinations == {Dest(s) : s \in ShipmentSet}

FirstOccurrence(d) == CHOOSE k \in 1..Len(Instance.shipments) :
                         /\ Dest(Instance.shipments[k]) = d
                         /\ \A j \in 1..(k - 1) : Dest(Instance.shipments[j]) # d

\* group d is processed before group e: nearer to the depot, or as near and
\* larger, or as near and as large and met earlier in the input
GroupBefore(d, e) ==
    LET dd == Dist(Net.origin_code, d)
        de == Dist(Net.origin_code, e)
        vd == SumCbm(dest_group(d))
        ve == SumCbm(dest_group(e))
    IN  \/ LtInf(dd, de)
        \/ dd = de /\ vd > ve
        \/ dd = de /\ vd = ve /\ FirstOccurrence(d) < FirstOccurrence(e)

GroupOrder ==
    CHOOSE p \in [1..Cardinality(Destinations) -> Destinations] :
       \A i, j \in DOMAIN p : i < j => GroupBefore(p[i], p[j])

\* the shipments of a group, largest volume first, input order among equals
LargestFirst(d) ==
    CHOOSE p \in [1..Len(dest_group(d)) -> Range(dest_group(d))] :
       \A i, j \in DOMAIN p :
          i < j => \/ Instance.total_cbm[p[i]] > Instance.total_cbm[p[j]]
                   \/ /\ Instance.total_cbm[p[i]] = Instance.total_cbm[p[j]]
                      /\ InputIndex(p[i]) < InputIndex(p[j])

\* the vehicle can take these shipments on top of what it carries
Holds(solution, v, shipments) ==
    /\ WithinTolerance(SumCbm(solution[v]) + SumCbm(shipments), Instance.max_cbm[v])
    /\ WithinTolerance(SumWeight(solution[v]) + SumWeight(shipments), Instance.max_weight[v])

ResidualAfter(solution, v, shipments) ==
    Instance.max_cbm[v] - SumCbm(solution[v]) - SumCbm(shipments)

\* where the shipments go: all on the holder with the least residual volume
\* (earliest in the fleet among equals), or "" when no vehicle holds them
Holder(solution, shipments) ==
    LET holders == {v \in VehicleSet : Holds(solution, v, shipments)}
    IN  IF holders = {} THEN ""
        ELSE CHOOSE v \in holders :
               \A w \in holders \ {v} :
                  \/ ResidualAfter(solution, v, shipments)
                       < ResidualAfter(solution, w, shipments)
                  \/ /\ ResidualAfter(solution, v, shipments)
                          = ResidualAfter(solution, w, shipments)
                     /\ FleetIndex(v) < FleetIndex(w)

\* the first vehicle in fleet order that accepts the shipment, or ""
FirstAccepting(solution, s) ==
    LET accepting == {v \in VehicleSet : Holds(solution, v, <<s>>)}
    IN  IF accepting = {} THEN ""
        ELSE CHOOSE v \in accepting : \A w \in accepting : FleetIndex(v) <= FleetIndex(w)

RECURSIVE OneByOne(_, _)
OneByOne(solution, shipments) ==
    IF shipments = <<>> THEN solution
    ELSE LET v == FirstAccepting(solution, Head(shipments))
         IN  OneByOne(IF v = "" THEN solution
                      ELSE [solution EXCEPT ![v] = Append(@, Head(shipments))],
                      Tail(shipments))

RECURSIVE GroupByGroup(_, _)
GroupByGroup(solution, k) ==
    IF k > Len(GroupOrder) THEN solution
    ELSE LET group == LargestFirst(GroupOrder[k])
             v == Holder(solution, group)
         IN  GroupByGroup(IF v = "" THEN OneByOne(solution, group)
                          ELSE [solution EXCEPT ![v] = @ \o group],
                          k + 1)

\* C22: the ffd_grouped constructor takes the destination groups by
\* ascending depot distance, then descending volume; a whole group goes on
\* the vehicle that can hold it with the least residual volume, the earliest
\* in the fleet among equals; a group no vehicle holds is placed one by one,
\* largest first, each shipment on the first vehicle that accepts it
C22_GroupedBestFit ==
    (ustep = "generate" /\ uin.strategy = "ffd_grouped") =>
        \A v \in VehicleSet :
           Range(uout.solution[v])
              = Range(GroupByGroup([w \in VehicleSet |-> <<>>], 1)[v])

\* the Hanoi group of 25 cbm fits neither truck of 20: the two large
\* shipments fill V1 and the small one goes on V2
C22_Witness ==
    /\ ustep = "generate"
    /\ uin.strategy = "ffd_grouped"
    /\ inst = 6
    /\ Holder([w \in VehicleSet |-> <<>>], dest_group("HAN")) = ""
    /\ Range(uout.solution["V1"]) = {"s2", "s3"}
    /\ uout.solution["V2"] = <<"s1">>

(***************************************************************************)
(* optimize_solution_routes: what it does to one vehicle's list            *)
(***************************************************************************)
\* the destination orders optimize_route_exact can return for the list
OptimizedOrders(shipments) ==
    UNION {optimize_route_exact(DefaultOrigin, destinations) :
             destinations \in set_as_list(shipments)}

\* `after` holds the shipments of `before`, each once, in the order of the
\* destinations' ranks, input order kept among those of one destination
StableByRank(before, after, optimized_order) ==
    /\ Len(after) = Len(before)
    /\ Range(after) = Range(before)
    /\ \A i, j \in DOMAIN after :
          i < j =>
             \/ IndexIn(optimized_order, Dest(after[i]))
                  < IndexIn(optimized_order, Dest(after[j]))
             \/ /\ Dest(after[i]) = Dest(after[j])
                /\ IndexIn(before, after[i]) < IndexIn(before, after[j])

\* C23: optimize_solution_routes gives every vehicle its own input shipments,
\* ordered by the optimized rank of their destinations, those that share a
\* destination in their input order; the caller's solution is left as it was
C23_StableReorderPerVehicle ==
    ustep = "optimize_solution_routes" =>
        \A v \in VehicleSet :
           IF uin.solution[v] = <<>> THEN uout[v] = <<>>
           ELSE \E optimized_order \in OptimizedOrders(uin.solution[v]) :
                   StableByRank(uin.solution[v], uout[v], optimized_order)

\* V1 carries Hanoi, Vientiane, Hanoi: the two Hanoi shipments come out
\* together and in their input order
C23_Witness ==
    /\ ustep = "optimize_solution_routes"
    /\ inst = 3
    /\ uin.solution = [V1 |-> <<"s3", "s2", "s1">>, V2 |-> <<>>]
    /\ uout = [V1 |-> <<"s3", "s1", "s2">>, V2 |-> <<>>]

(***************************************************************************)
(* optimize_route (nearest neighbor, then 2-opt) called on its own, on     *)
(* more destinations than the exact search takes                           *)
(***************************************************************************)
InitHeuristic ==
    /\ OracleReady(4)
    /\ uin \in {[origin |-> Net.origin_code, destinations |-> d] :
                  d \in {p \in DistinctSeqs(NodeSet(Net) \ {Net.origin_code},
                                            max_exact_size + 1) :
                           Len(p) > max_exact_size}}
    /\ inst = 0
    /\ uout = <<>>
    /\ ustep = "none"
    /\ NoOptimizer

CallOptimizeRoute ==
    /\ ustep = "none"
    /\ \E t \in optimize_route_run(uin.origin, uin.destinations) :
         /\ uout' = t.route
         /\ distance_cache' = Remember(distance_cache, t.asked)
    /\ ustep' = "optimize_route"
    /\ UNCHANGED <<net, nq, lastQuery, inst, uin, optVars>>

NextHeuristic == CallOptimizeRoute

SpecHeuristic == InitHeuristic /\ [][NextHeuristic]_vars

\* the route with its stops i..j (1-based, i < j) in reverse order
WithSegmentReversed(route, i, j) ==
    SubSeq(route, 1, i - 1) \o Reverse(SubSeq(route, i, j))
        \o SubSeq(route, j + 1, Len(route))

\* C24: for more than 5 distinct destinations optimize_route returns a
\* permutation of the destinations that is a full 2-opt local optimum:
\* reversing any contiguous segment of it does not lower the total distance
\* of the origin followed by the route
C24_TwoOptLocalOptimum ==
    ustep = "optimize_route" =>
        /\ Len(uout) = Len(uin.destinations)
        /\ Range(uout) = Range(uin.destinations)
        /\ \A i, j \in DOMAIN uout :
              i < j => LeInf(calculate_route_distance(uin.origin, uout),
                             calculate_route_distance(uin.origin,
                                                      WithSegmentReversed(uout, i, j)))

(***************************************************************************)
(* The load the vehicles record, against the solutions the driver holds    *)
(***************************************************************************)
\* the solutions the driver holds or has evaluated last
HeldSolutions ==
    {s \in {current_solution, best_solution} : s # None}
        \cup (IF last # None THEN {last.neighbor} ELSE {})
        \cup (IF returned # None THEN {returned.best_solution} ELSE {})

\* C25: in every solution the driver holds or evaluates, each vehicle's
\* recorded volume and weight are the sums over the shipments the solution
\* assigns to it (so that the reported utilization describes the assignment)
C25_RecordedLoadIsCarriedLoad ==
    phase # "INITIALIZING" =>
        \A s \in HeldSolutions :
           \A v \in VehicleSet :
              /\ vehicle_load[v].current_load_cbm = SumCbm(s[v])
              /\ vehicle_load[v].current_load_weight = SumWeight(s[v])

\* C26: every place where the driver orders or scores a vehicle's route takes
\* the network's configured depot (origin_code) as the single starting point
\* of the route.  For the route re-optimization of the final solution this
\* means: the order in which the returned solution visits each vehicle's
\* distinct destinations is a shortest one among all orders of these
\* destinations when driven from origin_code.  For the efficiency penalty it
\* means: the efficiency scored for a loaded vehicle is that of its stops
\* driven from the depot, the depot itself not being one of the stops.
ShortestFromDepot(shipments) ==
    LET stops == Tail(route_of(shipments))
    IN  \A other \in DistinctSeqs(Range(stops), Len(stops)) :
            Len(other) = Len(stops) =>
                LeInf(calculate_route_distance(Net.origin_code, stops),
                      calculate_route_distance(Net.origin_code, other))

\* what _evaluate scores, evaluate_route_efficiency on the route that begins
\* with the depot, against evaluate_route_efficiency on the stops after the
\* depot (its origin "NNG" is the depot of every Network built)
ScoredFromDepotOnce(shipments) ==
    evaluate_route_efficiency(route_of(shipments))
        = evaluate_route_efficiency(Tail(route_of(shipments)))

C26_RoutesStartAtDepot ==
    phase = "TERMINATED" =>
        \A v \in VehicleSet :
           returned.best_solution[v] # <<>> =>
              /\ Net.origin_code = DefaultOrigin
              /\ ShortestFromDepot(returned.best_solution[v])
              /\ ScoredFromDepotOnce(returned.best_solution[v])

\* C27: if the best solution held at the end of SEARCHING is valid, the solution
\* returned after the TERMINATED post-processing (consolidation, route
\* re-optimization, re-evaluation) is valid too: its validation has is_valid
\* true and reports no capacity violation.
C27_PostProcessingKeepsValidity ==
    [][(phase = "SEARCHING" /\ phase' = "TERMINATED" /\ best_validation.is_valid)
          => /\ returned'.validation.is_valid
             /\ returned'.validation.violations = <<>>]_vars

\* C28: the defuzzified best_cost reported in the result of optimize() is never
\* greater than the defuzzified best cost held at the end of SEARCHING: the
\* TERMINATED post-processing does not worsen the reported best.
C28_PostProcessingNeverWorsens ==
    [][(phase = "SEARCHING" /\ phase' = "TERMINATED")
          => LeInf(defuzzify(returned'.best_cost), defuzzify(best_cost))]_vars

\* C29: the run statistics are consistent at every iteration boundary and in
\* the result: each iteration increments exactly one of accepted and rejected,
\* so the number of iterations performed is accepted + rejected, the result's
\* statistics have iterations = accepted + rejected, and improvements never
\* exceeds accepted.
StatisticsConsistent ==
    /\ phase = "SEARCHING" =>
          /\ iteration = stats.accepted + stats.rejected
          /\ stats.improvements <= stats.accepted
    /\ phase = "TERMINATED" =>
          /\ returned.statistics.iterations
               = returned.statistics.accepted + returned.statistics.rejected
          /\ returned.statistics.improvements <= returned.statistics.accepted
          /\ returned.statistics.iterations = iteration

OneCounterPerIteration ==
    (phase = "SEARCHING" /\ iteration' = iteration + 1) =>
        \/ /\ stats'.accepted = stats.accepted + 1
           /\ stats'.rejected = stats.rejected
        \/ /\ stats'.accepted = stats.accepted
           /\ stats'.rejected = stats.rejected + 1

C29_StatisticsConsistent ==
    []StatisticsConsistent /\ [][OneCounterPerIteration]_vars

\* a run of two iterations, one rejected and one accepted as an improvement
C29_Witness ==
    /\ phase = "TERMINATED"
    /\ returned.statistics
         = [iterations |-> 2, accepted |-> 1, rejected |-> 1, improvements |-> 1]

(***************************************************************************)
(* A second call of optimize() on the same optimizer object.  The fields   *)
(* of the object keep what the first call left in them; optimize() assigns *)
(* the solutions, the costs and its local counters anew (Initialize) and   *)
(* nowhere assigns self.temperature, which only __init__ sets.  The result *)
(* of the first call is kept by the caller, in uout.                       *)
(***************************************************************************)
OptimizeAgain ==
    /\ phase = "TERMINATED"
    /\ ustep = "none"
    /\ uout' = returned
    /\ ustep' = "optimize_again"
    /\ phase' = "INITIALIZING"
    /\ UNCHANGED <<netVars, inst, uin, vehicle_load, current_solution, current_cost,
                   best_solution, best_cost, best_validation, temperature, iteration,
                   stats, last, returned>>

NextSecondCall == Next \/ OptimizeAgain

SpecSecondCall == Init /\ [][NextSecondCall]_vars

\* C30: every call of optimize() on an optimizer object starts SEARCHING at
\* initial_temperature, so that a second call on the same object performs as
\* many iterations as the first call did.
C30_SecondCallStartsHot ==
    ustep = "optimize_again" =>
        /\ (phase = "SEARCHING" /\ iteration = 0) =>
              temperature.num = Instance.params.initial_temperature * temperature.den
        /\ phase = "TERMINATED" =>
              returned.statistics.iterations = uout.statistics.iterations

====
